---- MODULE Spec2Model ----
(***************************************************************************)
(* Fitness tracker: the record store (ActivityLog, WaterIntake,            *)
(* UserProfile, Badge tables), the request handlers that write it, and the *)
(* BadgeChecker achievement engine of fitnesstrack/badge_system.py.        *)
(*                                                                         *)
(* Tables are bags of rows: a row keeps the columns the engine reads, and  *)
(* two rows that agree on them differ only in their primary key.  Dates    *)
(* are day numbers; `today` is timezone.now().date().                      *)
(***************************************************************************)
EXTENDS Integers, Naturals, Sequences, FiniteSets, Bags, TLC

VARIABLES today, activities, water, profiles, badges, nops, proc, meals,
          biometrics, goals

vars ==
    <<today, activities, water, profiles, badges, nops, proc, meals, biometrics,
      goals>>

-----------------------------------------------------------------------------
(* Bounds of the model *)

\* day number of `today` in the initial states
StartDay == 30
\* number of midnights that pass in a run
MaxDays == 1
\* number of record-writing requests (log, edit, delete, profile) in a run
MaxOps == 2
\* edit and delete requests target rows dated at most this many days back
EditWindow == 3

-----------------------------------------------------------------------------
(* Domains *)

Users == {"u1", "u2"}

BADGE_TYPES ==
    {"CONSISTENCY_7", "CONSISTENCY_30", "FIRST_WORKOUT", "CALORIE_BURNER_1000",
     "CALORIE_BURNER_5000", "EARLY_BIRD", "HYDRATION_MASTER", "WEIGHT_GOAL"}

ACTIVITY_LEVEL_CHOICES == {"SEDENTARY", "ACTIVE", "ATHLETE"}

\* a null column or a None result, kept apart from every number in use
None == 0 - 1

\* UserProfile.DoesNotExist
NoProfile == [exists |-> FALSE]

Profile(w, lvl) == [exists |-> TRUE, weight_kg |-> w, activity_level |-> lvl]

\* MET values, times ten
MET_VALUES ==
    ("RUNNING" :> 98) @@ ("CYCLING" :> 75) @@ ("WEIGHTLIFTING" :> 60) @@
    ("SWIMMING" :> 80) @@ ("WALKING" :> 38) @@ ("YOGA" :> 25) @@
    ("HIIT" :> 80) @@ ("OTHER" :> 50)

\* inputs of the logging requests
LogKinds == {<<"SWIMMING", 30>>}
EditKinds == {<<"RUNNING", 90>>}
\* the users whose requests write records; the others only check badges
Writers == {"u1"}
Hours == {6, 7}
Volumes == {250, 2250}
\* (weight_kg, activity_level) submitted to the profile form
ProfileForms == {<<None, "SEDENTARY">>, <<70, "ACTIVE">>}

-----------------------------------------------------------------------------
(* Arithmetic *)

\* Python round() of the rational n/d (n >= 0, d > 0): nearest integer, an
\* exact half goes to the even neighbour
Round(n, d) ==
    LET q == n \div d
        r == n % d
    IN  IF 2 * r < d THEN q
        ELSE IF 2 * r > d THEN q + 1
        ELSE IF q % 2 = 0 THEN q ELSE q + 1

RECURSIVE SumOver(_, _, _)
SumOver(S, b, col) ==
    IF S = {} THEN 0
    ELSE LET r == CHOOSE x \in S : TRUE
         IN  b[r] * col[r] + SumOver(S \ {r}, b, col)

-----------------------------------------------------------------------------
(* FitnessCalculator *)

estimate_calories_burned(activity_type, duration_minutes, weight_kg) ==
    IF weight_kg = None THEN None
    ELSE IF weight_kg <= 0 \/ duration_minutes <= 0 THEN None
    ELSE LET met == IF activity_type \in DOMAIN MET_VALUES
                    THEN MET_VALUES[activity_type] ELSE 50
         IN  Round(met * weight_kg * duration_minutes, 600)

\* weight * 35, times 1.3 or 1.15, rounded to an integer.  The products the
\* model draws (whole kilograms, 70 kg) round as the code's floating-point
\* products do.
calculate_water_intake_target(weight_kg, activity_level) ==
    IF weight_kg = None THEN None
    ELSE IF weight_kg <= 0 THEN None
    ELSE LET base == weight_kg * 35
         IN  IF activity_level = "ATHLETE" THEN Round(base * 130, 100)
             ELSE IF activity_level = "ACTIVE" THEN Round(base * 115, 100)
             ELSE base

-----------------------------------------------------------------------------
(* Queries of the record store *)

\* ActivityLog.objects.filter(user=user)
ActivitiesOf(A, u) == {r \in BagToSet(A) : r.user = u}

\* aggregate(total=Sum('calories_burned'))['total'] or 0
TotalCalories(A, u) ==
    SumOver(ActivitiesOf(A, u), A, [r \in ActivitiesOf(A, u) |-> r.calories])

\* WaterIntake.get_daily_total(user, date)
get_daily_total(W, u, d) ==
    LET rows == {r \in BagToSet(W) : r.user = u /\ r.day = d}
    IN  SumOver(rows, W, [r \in rows |-> r.milliliters])

\* Badge.objects.filter(user=user, badge_type=k).exists()
BadgeExists(B, u, k) == BagIn([user |-> u, badge_type |-> k], B)

\* Badge.objects.filter(user=user).count()
BadgeCount(B, u) ==
    LET rows == {r \in BagToSet(B) : r.user = u}
    IN  SumOver(rows, B, [r \in rows |-> 1])

\* the badge kinds a user holds
Held(B, u) == {k \in BADGE_TYPES : BadgeExists(B, u, k)}

-----------------------------------------------------------------------------
(* Writes of the record store *)

ActivityRow(u, d, h, c) == [user |-> u, day |-> d, hour |-> h, calories |-> c]

WaterRow(u, d, ml) == [user |-> u, day |-> d, milliliters |-> ml]

BadgeRow(u, k) == [user |-> u, badge_type |-> k]

\* a Goal row; target_value and current_value in hundredths
GoalRow(u, goal_type, target_value, current_value) ==
    [user |-> u, goal_type |-> goal_type, target_value |-> target_value,
     current_value |-> current_value]

\* Goal.progress_percentage, in hundredths of a percent:
\* min(round(current / target * 100, 2), 100.0) when target > 0, else 0.0.
\* On the values the model draws the rounding of the floating-point quotient
\* is that of the exact one.
progress_percentage(target_value, current_value) ==
    IF target_value > 0
    THEN LET progress == Round(current_value * 10000, target_value)
         IN  IF progress < 10000 THEN progress ELSE 10000
    ELSE 0

\* Goal.is_achieved
is_achieved(target_value, current_value) == current_value >= target_value

\* an insert into a Badge table without the unique_together constraint
Badge_create_unconstrained(B, u, k) ==
    [ok |-> TRUE, badges |-> B (+) SetToBag({BadgeRow(u, k)})]

\* Badge.objects.create under unique_together (user, badge_type): the insert
\* of a second row for the pair raises IntegrityError and stores nothing
Badge_create(B, u, k) ==
    IF BagIn(BadgeRow(u, k), B)
    THEN [ok |-> FALSE, badges |-> B]
    ELSE [ok |-> TRUE, badges |-> B (+) SetToBag({BadgeRow(u, k)})]

\* the MET table of ActivityLog.calculate_calories, times ten
met_values ==
    ("RUNNING" :> 98) @@ ("CYCLING" :> 75) @@ ("WEIGHTLIFTING" :> 60) @@
    ("SWIMMING" :> 80) @@ ("WALKING" :> 38) @@ ("YOGA" :> 25) @@
    ("HIIT" :> 80) @@ ("OTHER" :> 50)

\* calories for the assumed average weight of 70 kg, whatever the profile
calculate_calories_average_weight(u, activity_type, duration_minutes) ==
    LET met == IF activity_type \in DOMAIN met_values
               THEN met_values[activity_type] ELSE 50
    IN  Round(met * 70 * duration_minutes, 600)

\* ActivityLog.calculate_calories: profile weight, 70 kg when it is missing
calculate_calories(u, activity_type, duration_minutes) ==
    LET met == IF activity_type \in DOMAIN met_values
               THEN met_values[activity_type] ELSE 50
        weight_kg == IF profiles[u].exists /\ profiles[u].weight_kg # None
                        /\ profiles[u].weight_kg # 0
                     THEN profiles[u].weight_kg ELSE 70
    IN  Round(met * weight_kg * duration_minutes, 600)

\* ActivityLog.save: calories are derived when none (or zero) is supplied
ActivityLog_save(u, activity_type, duration_minutes, calories_burned, d, h) ==
    ActivityRow(u, d, h,
                IF calories_burned = None \/ calories_burned = 0
                THEN calculate_calories(u, activity_type, duration_minutes)
                ELSE calories_burned)

-----------------------------------------------------------------------------
(* BadgeChecker: each check maps the Badge table B to the table after the    *)
(* call, the value returned, and whether the call raised IntegrityError.    *)

Return(B, v) == [badges |-> B, ret |-> v, err |-> FALSE]

\* create the badge, then return v; a rejected insert propagates
CreateThenReturn(B, u, k, v) ==
    LET c == Badge_create(B, u, k)
    IN  IF c.ok THEN [badges |-> c.badges, ret |-> v, err |-> FALSE]
        ELSE [badges |-> c.badges, ret |-> "IntegrityError", err |-> TRUE]

StreakCap == 365

\* a scan with no cap on the count
StreakStops_uncapped(days, i) == (today - i) \notin days

\* The while loop of _calculate_current_streak: iteration i (from 0) looks at
\* today - i.  The scan ends at iteration i when that day has no activity,
\* or when the count, after being incremented to i + 1, exceeds StreakCap.
StreakStops(days, i) == (today - i) \notin days \/ i + 1 > StreakCap

\* the iteration at which the scan ends
StreakLast(days) ==
    CHOOSE i \in 0..StreakCap :
        /\ StreakStops(days, i)
        /\ \A j \in 0..(i - 1) : ~StreakStops(days, j)

\* a scan that reports the iteration index when the cap ends it
StreakLoop_short(days) == StreakLast(days)

StreakLoop(days) ==
    LET last == StreakLast(days)
    IN  IF (today - last) \in days THEN last + 1 ELSE last

\* a streak over the activity days of every user
calculate_current_streak_all_users(u) ==
    StreakLoop({r.day : r \in BagToSet(activities)})

calculate_current_streak(u) ==
    StreakLoop({r.day : r \in ActivitiesOf(activities, u)})

\* the 7-day check that skips the streak when the badge is held
check_consistency_badge_no_streak_when_held(B, u) ==
    IF BadgeExists(B, u, "CONSISTENCY_7") THEN Return(B, <<FALSE, 0>>)
    ELSE LET streak == calculate_current_streak(u)
         IN  IF streak >= 7
             THEN CreateThenReturn(B, u, "CONSISTENCY_7", <<TRUE, streak>>)
             ELSE Return(B, <<FALSE, streak>>)

check_consistency_badge(B, u) ==
    LET streak == calculate_current_streak(u)
    IN  IF BadgeExists(B, u, "CONSISTENCY_7") THEN Return(B, <<FALSE, streak>>)
        ELSE IF streak >= 7
             THEN CreateThenReturn(B, u, "CONSISTENCY_7", <<TRUE, streak>>)
             ELSE Return(B, <<FALSE, streak>>)

\* the 30-day check with the 7-day threshold
check_30_day_consistency_week(B, u) ==
    LET streak == calculate_current_streak(u)
    IN  IF BadgeExists(B, u, "CONSISTENCY_30") THEN Return(B, <<FALSE, streak>>)
        ELSE IF streak >= 7
             THEN CreateThenReturn(B, u, "CONSISTENCY_30", <<TRUE, streak>>)
             ELSE Return(B, <<FALSE, streak>>)

check_30_day_consistency(B, u) ==
    LET streak == calculate_current_streak(u)
    IN  IF BadgeExists(B, u, "CONSISTENCY_30") THEN Return(B, <<FALSE, streak>>)
        ELSE IF streak >= 30
             THEN CreateThenReturn(B, u, "CONSISTENCY_30", <<TRUE, streak>>)
             ELSE Return(B, <<FALSE, streak>>)

\* the first-workout check without its look-up of the badge
check_first_workout_badge_unguarded(B, u) ==
    IF ActivitiesOf(activities, u) # {}
    THEN CreateThenReturn(B, u, "FIRST_WORKOUT", TRUE)
    ELSE Return(B, FALSE)

check_first_workout_badge(B, u) ==
    IF BadgeExists(B, u, "FIRST_WORKOUT") THEN Return(B, FALSE)
    ELSE IF ActivitiesOf(activities, u) # {}
         THEN CreateThenReturn(B, u, "FIRST_WORKOUT", TRUE)
         ELSE Return(B, FALSE)

\* the calorie check with the 5000 tier tried only when the 1000 tier is not
\* awarded in the same call
check_calorie_burner_badges_elif(B, u) ==
    LET total_calories == TotalCalories(activities, u)
    IN  IF total_calories >= 1000 /\ ~BadgeExists(B, u, "CALORIE_BURNER_1000")
        THEN CreateThenReturn(B, u, "CALORIE_BURNER_1000",
                              <<"CALORIE_BURNER_1000">>)
        ELSE IF total_calories >= 5000
                /\ ~BadgeExists(B, u, "CALORIE_BURNER_5000")
             THEN CreateThenReturn(B, u, "CALORIE_BURNER_5000",
                                   <<"CALORIE_BURNER_5000">>)
             ELSE Return(B, <<>>)

\* the calorie check that awards only the highest tier reached
check_calorie_burner_badges_highest_only(B, u) ==
    LET total_calories == TotalCalories(activities, u)
    IN  IF total_calories >= 5000 /\ ~BadgeExists(B, u, "CALORIE_BURNER_5000")
        THEN CreateThenReturn(B, u, "CALORIE_BURNER_5000",
                              <<"CALORIE_BURNER_5000">>)
        ELSE IF total_calories >= 1000
                /\ ~BadgeExists(B, u, "CALORIE_BURNER_1000")
             THEN CreateThenReturn(B, u, "CALORIE_BURNER_1000",
                                   <<"CALORIE_BURNER_1000">>)
             ELSE Return(B, <<>>)

check_calorie_burner_badges(B, u) ==
    LET total_calories == TotalCalories(activities, u)
        first == IF total_calories >= 1000
                    /\ ~BadgeExists(B, u, "CALORIE_BURNER_1000")
                 THEN CreateThenReturn(B, u, "CALORIE_BURNER_1000",
                                       <<"CALORIE_BURNER_1000">>)
                 ELSE Return(B, <<>>)
        B1 == first.badges
    IN  IF first.err THEN first
        ELSE IF total_calories >= 5000
                /\ ~BadgeExists(B1, u, "CALORIE_BURNER_5000")
             THEN CreateThenReturn(B1, u, "CALORIE_BURNER_5000",
                                   Append(first.ret, "CALORIE_BURNER_5000"))
             ELSE Return(B1, first.ret)

\* the early-bird check with hour <= 7
check_early_bird_badge_lte(B, u) ==
    IF BadgeExists(B, u, "EARLY_BIRD") THEN Return(B, FALSE)
    ELSE IF \E r \in ActivitiesOf(activities, u) : r.hour <= 7
         THEN CreateThenReturn(B, u, "EARLY_BIRD", TRUE)
         ELSE Return(B, FALSE)

check_early_bird_badge(B, u) ==
    IF BadgeExists(B, u, "EARLY_BIRD") THEN Return(B, FALSE)
    ELSE IF \E r \in ActivitiesOf(activities, u) : r.hour < 7
         THEN CreateThenReturn(B, u, "EARLY_BIRD", TRUE)
         ELSE Return(B, FALSE)

\* the target lookup with no default for a weight that gives no target
WaterTargetFor_no_default(profile) ==
    IF ~profile.exists THEN 2500
    ELSE calculate_water_intake_target(profile.weight_kg, profile.activity_level)

\* the try/except of check_hydration_badge: UserProfile.objects.get raises
\* DoesNotExist for a missing row (target 2500); otherwise the computed
\* target, or 2500 when the calculator gives None or 0
WaterTargetFor(profile) ==
    IF ~profile.exists THEN 2500
    ELSE LET t == calculate_water_intake_target(profile.weight_kg,
                                                profile.activity_level)
         IN  IF t = None \/ t = 0 THEN 2500 ELSE t

WaterTarget(u) == WaterTargetFor(profiles[u])

\* the hydration scan with a day counted only above the target
RECURSIVE HydrationScan_strict(_, _, _, _, _)
HydrationScan_strict(u, target, check_date, i, consecutive_days) ==
    IF i = 7 THEN consecutive_days
    ELSE IF get_daily_total(water, u, check_date) > target
         THEN HydrationScan_strict(u, target, check_date - 1, i + 1,
                                   consecutive_days + 1)
         ELSE consecutive_days

RECURSIVE HydrationScan(_, _, _, _, _)
HydrationScan(u, target, check_date, i, consecutive_days) ==
    IF i = 7 THEN consecutive_days
    ELSE IF get_daily_total(water, u, check_date) >= target
         THEN HydrationScan(u, target, check_date - 1, i + 1, consecutive_days + 1)
         ELSE consecutive_days

check_hydration_badge(B, u) ==
    IF BadgeExists(B, u, "HYDRATION_MASTER") THEN Return(B, FALSE)
    ELSE IF HydrationScan(u, WaterTarget(u), today, 0, 0) >= 7
         THEN CreateThenReturn(B, u, "HYDRATION_MASTER", TRUE)
         ELSE Return(B, FALSE)

\* the summary dict of check_all_badges
Summary(awarded, streak, total) ==
    [badges_awarded |-> awarded, current_streak |-> streak, total_badges |-> total]

AppendIf(s, cond, k) == IF cond THEN Append(s, k) ELSE s

\* check_all_badges with the badge count taken before the checks run
check_all_badges_stale_total(B, u) ==
    LET r1 == check_first_workout_badge(B, u)
        a1 == AppendIf(<<>>, r1.ret, "FIRST_WORKOUT")
        r2 == check_consistency_badge(r1.badges, u)
        a2 == AppendIf(a1, r2.ret[1], "CONSISTENCY_7")
        r3 == check_30_day_consistency(r2.badges, u)
        a3 == AppendIf(a2, r3.ret[1], "CONSISTENCY_30")
        r4 == check_calorie_burner_badges(r3.badges, u)
        a4 == a3 \o r4.ret
        r5 == check_early_bird_badge(r4.badges, u)
        a5 == AppendIf(a4, r5.ret, "EARLY_BIRD")
        r6 == check_hydration_badge(r5.badges, u)
        a6 == AppendIf(a5, r6.ret, "HYDRATION_MASTER")
    IN  IF r1.err THEN r1
        ELSE IF r2.err THEN r2
        ELSE IF r3.err THEN r3
        ELSE IF r4.err THEN r4
        ELSE IF r5.err THEN r5
        ELSE IF r6.err THEN r6
        ELSE Return(r6.badges, Summary(a6, r2.ret[2], BadgeCount(B, u)))

\* check_all_badges with a check that awards WEIGHT_GOAL for an achieved
\* weight goal
check_all_badges_weight_goal(B, u) ==
    LET r1 == check_first_workout_badge(B, u)
        a1 == AppendIf(<<>>, r1.ret, "FIRST_WORKOUT")
        r2 == check_consistency_badge(r1.badges, u)
        a2 == AppendIf(a1, r2.ret[1], "CONSISTENCY_7")
        r3 == check_30_day_consistency(r2.badges, u)
        a3 == AppendIf(a2, r3.ret[1], "CONSISTENCY_30")
        r4 == check_calorie_burner_badges(r3.badges, u)
        a4 == a3 \o r4.ret
        r5 == check_early_bird_badge(r4.badges, u)
        a5 == AppendIf(a4, r5.ret, "EARLY_BIRD")
        r6 == check_hydration_badge(r5.badges, u)
        a6 == AppendIf(a5, r6.ret, "HYDRATION_MASTER")
        reached == /\ ~BadgeExists(r6.badges, u, "WEIGHT_GOAL")
                   /\ \E g \in BagToSet(goals) :
                         /\ g.user = u
                         /\ g.goal_type = "WEIGHT"
                         /\ is_achieved(g.target_value, g.current_value)
        r7 == IF reached THEN CreateThenReturn(r6.badges, u, "WEIGHT_GOAL", TRUE)
              ELSE Return(r6.badges, FALSE)
        a7 == AppendIf(a6, r7.ret, "WEIGHT_GOAL")
    IN  IF r1.err THEN r1
        ELSE IF r2.err THEN r2
        ELSE IF r3.err THEN r3
        ELSE IF r4.err THEN r4
        ELSE IF r5.err THEN r5
        ELSE IF r6.err THEN r6
        ELSE Return(r7.badges, Summary(a7, r2.ret[2], BadgeCount(r7.badges, u)))

check_all_badges(B, u) ==
    LET r1 == check_first_workout_badge(B, u)
        a1 == AppendIf(<<>>, r1.ret, "FIRST_WORKOUT")
        r2 == check_consistency_badge(r1.badges, u)
        a2 == AppendIf(a1, r2.ret[1], "CONSISTENCY_7")
        r3 == check_30_day_consistency(r2.badges, u)
        a3 == AppendIf(a2, r3.ret[1], "CONSISTENCY_30")
        r4 == check_calorie_burner_badges(r3.badges, u)
        a4 == a3 \o r4.ret
        r5 == check_early_bird_badge(r4.badges, u)
        a5 == AppendIf(a4, r5.ret, "EARLY_BIRD")
        r6 == check_hydration_badge(r5.badges, u)
        a6 == AppendIf(a5, r6.ret, "HYDRATION_MASTER")
    IN  IF r1.err THEN r1
        ELSE IF r2.err THEN r2
        ELSE IF r3.err THEN r3
        ELSE IF r4.err THEN r4
        ELSE IF r5.err THEN r5
        ELSE IF r6.err THEN r6
        ELSE Return(r6.badges,
                    Summary(a6, r2.ret[2], BadgeCount(r6.badges, u)))

\* current / required * 100 in binary floating point falls just below the
\* whole number for these pairs, so int() yields one less than the quotient
FloatShort ==
    {<<69, 30>>, <<123, 30>>, <<138, 30>>, <<153, 30>>, <<246, 30>>,
     <<261, 30>>, <<276, 30>>, <<291, 30>>, <<306, 30>>,
     <<290, 1000>>, <<570, 1000>>, <<580, 1000>>,
     <<1450, 5000>>, <<2850, 5000>>, <<2900, 5000>>}

\* min(100, int(current / required * 100)): int() truncates
Percentage(current, required) ==
    LET q == (current * 100) \div required
        truncated == IF <<current, required>> \in FloatShort THEN q - 1 ELSE q
    IN  IF truncated > 100 THEN 100 ELSE truncated

ProgressEntry(current, required) ==
    [current |-> current, required |-> required,
     percentage |-> Percentage(current, required)]

\* a progress report that lists all four badges, earned or not
get_badge_progress_all(B, u) ==
    LET streak == calculate_current_streak(u)
        total_calories == TotalCalories(activities, u)
    IN  [k \in {"consistency_7", "consistency_30",
                "calorie_burner_1000", "calorie_burner_5000"} |->
            CASE k = "consistency_7" -> ProgressEntry(streak, 7)
              [] k = "consistency_30" -> ProgressEntry(streak, 30)
              [] k = "calorie_burner_1000" -> ProgressEntry(total_calories, 1000)
              [] k = "calorie_burner_5000" -> ProgressEntry(total_calories, 5000)]

\* BadgeChecker.get_badge_progress: the progress dict, keyed by badge name
get_badge_progress(B, u) ==
    LET earned_badges == {r.badge_type : r \in {x \in BagToSet(B) : x.user = u}}
        streak == calculate_current_streak(u)
        total_calories == TotalCalories(activities, u)
        entry == [k \in {"consistency_7", "consistency_30",
                         "calorie_burner_1000", "calorie_burner_5000"} |->
                    CASE k = "consistency_7" -> ProgressEntry(streak, 7)
                      [] k = "consistency_30" -> ProgressEntry(streak, 30)
                      [] k = "calorie_burner_1000" ->
                            ProgressEntry(total_calories, 1000)
                      [] k = "calorie_burner_5000" ->
                            ProgressEntry(total_calories, 5000)]
        keys == (IF "CONSISTENCY_7" \notin earned_badges
                 THEN {"consistency_7"} ELSE {})
                \cup (IF "CONSISTENCY_30" \notin earned_badges
                      THEN {"consistency_30"} ELSE {})
                \cup (IF "CALORIE_BURNER_1000" \notin earned_badges
                      THEN {"calorie_burner_1000"} ELSE {})
                \cup (IF "CALORIE_BURNER_5000" \notin earned_badges
                      THEN {"calorie_burner_5000"} ELSE {})
    IN  [k \in keys |-> entry[k]]

-----------------------------------------------------------------------------
(* Initial record stores: histories the handlers below can build, with no   *)
(* badge awarded yet.  T is the initial day.                                *)

ActivityRun(u, first, last, h, c) ==
    SetToBag({ActivityRow(u, d, h, c) : d \in first..last})

WaterRun(u, first, last, ml) ==
    SetToBag({WaterRow(u, d, ml) : d \in first..last})

\* a second user with one early, heavy workout yesterday
Background(T) == SetToBag({ActivityRow("u2", T - 1, 6, 1200)})

\* nobody has logged anything; no profile rows
Fresh(T) ==
    [activities |-> EmptyBag, water |-> EmptyBag,
     profiles |-> [u \in Users |-> NoProfile]]

\* six days in a row up to yesterday, 720 kcal in all, water on target
Week(T) ==
    [activities |-> ActivityRun("u1", T - 6, T - 1, 12, 120) (+) Background(T),
     water |-> WaterRun("u1", T - 6, T - 1, 2450),
     profiles |-> [u \in Users |-> IF u = "u1" THEN Profile(70, "SEDENTARY")
                                   ELSE Profile(None, "SEDENTARY")]]

\* twenty-nine days in a row up to yesterday, 4720 kcal in all, no weight
Month(T) ==
    [activities |-> ActivityRun("u1", T - 29, T - 2, 12, 160)
                    (+) ActivityRun("u1", T - 1, T - 1, 12, 240)
                    (+) Background(T),
     water |-> WaterRun("u1", T - 6, T - 1, 2500),
     profiles |-> [u \in Users |-> Profile(None, "SEDENTARY")]]

\* activity today, yesterday and three days ago; one dry day in the week
Gap(T) ==
    [activities |-> ActivityRun("u1", T - 1, T, 9, 300)
                    (+) ActivityRun("u1", T - 3, T - 3, 9, 300)
                    (+) Background(T),
     water |-> WaterRun("u1", T - 6, T - 3, 3000)
               (+) WaterRun("u1", T - 2, T - 2, 250)
               (+) WaterRun("u1", T - 1, T, 3000),
     profiles |-> [u \in Users |-> IF u = "u1" THEN Profile(70, "ACTIVE")
                                   ELSE NoProfile]]

InitStores(T) == {Fresh(T), Week(T), Month(T), Gap(T)}

Idle == [pc |-> "idle"]

Procs == {"p1", "p2"}

Init ==
    /\ today = StartDay
    /\ \E s \in InitStores(StartDay) :
          /\ activities = s.activities
          /\ water = s.water
          /\ profiles = s.profiles
    /\ badges = EmptyBag
    /\ meals = EmptyBag
    /\ biometrics = EmptyBag
    /\ goals = EmptyBag
    /\ nops = 0
    /\ proc = [p \in Procs |-> Idle]

-----------------------------------------------------------------------------
(* Request handlers that write the record store *)

\* a log_activity that hands out the first-workout badge itself
log_activity_awarding(u, activity_type, duration_minutes, h) ==
    /\ nops < MaxOps
    /\ LET weight_kg == IF profiles[u].exists /\ profiles[u].weight_kg # None
                           /\ profiles[u].weight_kg # 0
                        THEN profiles[u].weight_kg ELSE 70
           calories == estimate_calories_burned(activity_type,
                                                duration_minutes, weight_kg)
       IN  activities' = activities (+) SetToBag({
               ActivityLog_save(u, activity_type, duration_minutes, calories,
                                today, h)})
    /\ profiles' = IF profiles[u].exists THEN profiles
                   ELSE [profiles EXCEPT ![u] = Profile(None, "SEDENTARY")]
    /\ badges' = IF BadgeExists(badges, u, "FIRST_WORKOUT") THEN badges
                 ELSE badges (+) SetToBag({BadgeRow(u, "FIRST_WORKOUT")})
    /\ nops' = nops + 1
    /\ UNCHANGED <<today, water, proc, meals, biometrics, goals>>

\* views.log_activity: calories from the profile weight, 70 kg by default; a
\* missing profile is created
log_activity(u, activity_type, duration_minutes, h) ==
    /\ nops < MaxOps
    /\ LET weight_kg == IF profiles[u].exists /\ profiles[u].weight_kg # None
                           /\ profiles[u].weight_kg # 0
                        THEN profiles[u].weight_kg ELSE 70
           calories == estimate_calories_burned(activity_type,
                                                duration_minutes, weight_kg)
       IN  activities' = activities (+) SetToBag({
               ActivityLog_save(u, activity_type, duration_minutes, calories,
                                today, h)})
    /\ profiles' = IF profiles[u].exists THEN profiles
                   ELSE [profiles EXCEPT ![u] = Profile(None, "SEDENTARY")]
    /\ nops' = nops + 1
    /\ UNCHANGED <<today, water, badges, proc, meals, biometrics, goals>>

\* views.edit_activity: calories are recomputed when the profile has a weight
edit_activity(u, row, activity_type, duration_minutes) ==
    /\ nops < MaxOps
    /\ row \in ActivitiesOf(activities, u)
    /\ row.day >= today - EditWindow
    /\ LET calories == IF profiles[u].exists /\ profiles[u].weight_kg # None
                          /\ profiles[u].weight_kg # 0
                       THEN estimate_calories_burned(activity_type,
                                duration_minutes, profiles[u].weight_kg)
                       ELSE row.calories
       IN  activities' = (activities (-) SetToBag({row})) (+) SetToBag({
               ActivityLog_save(u, activity_type, duration_minutes, calories,
                                row.day, row.hour)})
    /\ nops' = nops + 1
    /\ UNCHANGED <<today, water, profiles, badges, proc, meals, biometrics,
                   goals>>

\* a delete that also removes the badges of the activity's owner
delete_activity_cascade(u, row) ==
    /\ nops < MaxOps
    /\ row \in ActivitiesOf(activities, u)
    /\ row.day >= today - EditWindow
    /\ activities' = activities (-) SetToBag({row})
    /\ badges' = [r \in {x \in DOMAIN badges : x.user # u} |-> badges[r]]
    /\ nops' = nops + 1
    /\ UNCHANGED <<today, water, profiles, proc, meals, biometrics, goals>>

\* views.delete_activity
delete_activity(u, row) ==
    /\ nops < MaxOps
    /\ row \in ActivitiesOf(activities, u)
    /\ row.day >= today - EditWindow
    /\ activities' = activities (-) SetToBag({row})
    /\ nops' = nops + 1
    /\ UNCHANGED <<today, water, profiles, badges, proc, meals, biometrics,
                   goals>>

\* views.log_water and views.log_water_quick
log_water(u, milliliters) ==
    /\ nops < MaxOps
    /\ water' = water (+) SetToBag({WaterRow(u, today, milliliters)})
    /\ nops' = nops + 1
    /\ UNCHANGED <<today, activities, profiles, badges, proc,
                   meals, biometrics, goals>>

\* views.update_profile: the form sets weight (may be blank) and level
update_profile(u, weight_kg, activity_level) ==
    /\ nops < MaxOps
    /\ profiles' = [profiles EXCEPT ![u] = Profile(weight_kg, activity_level)]
    /\ nops' = nops + 1
    /\ UNCHANGED <<today, activities, water, badges, proc, meals, biometrics,
                   goals>>

\* midnight passes
DayChange ==
    /\ today < StartDay + MaxDays
    /\ today' = today + 1
    /\ UNCHANGED <<activities, water, profiles, badges, nops, proc,
                   meals, biometrics, goals>>

-----------------------------------------------------------------------------
(* BadgeChecker calls, one request at a time *)

\* run a check on the Badge table; an IntegrityError leaves what was stored
Call(r) ==
    /\ badges' = r.badges
    /\ UNCHANGED <<today, activities, water, profiles, nops, proc,
                   meals, biometrics, goals>>

CallCheckAll(u) == Call(check_all_badges(badges, u))

CallFirstWorkout(u) == Call(check_first_workout_badge(badges, u))

CallConsistency(u) == Call(check_consistency_badge(badges, u))

CallConsistency30(u) == Call(check_30_day_consistency(badges, u))

CallCalorieBurner(u) == Call(check_calorie_burner_badges(badges, u))

CallEarlyBird(u) == Call(check_early_bird_badge(badges, u))

CallHydration(u) == Call(check_hydration_badge(badges, u))

Next ==
    \/ \E u \in Writers, k \in LogKinds, h \in Hours :
          log_activity(u, k[1], k[2], h)
    \/ \E u \in Writers, row \in BagToSet(activities), k \in EditKinds :
          edit_activity(u, row, k[1], k[2])
    \/ \E u \in Writers, row \in BagToSet(activities) : delete_activity(u, row)
    \/ \E u \in Writers, ml \in Volumes : log_water(u, ml)
    \/ \E u \in Writers, f \in ProfileForms : update_profile(u, f[1], f[2])
    \/ DayChange
    \/ \E u \in Users : CallCheckAll(u)
    \/ \E u \in Writers : CallFirstWorkout(u)
    \/ \E u \in Writers : CallConsistency(u)
    \/ \E u \in Writers : CallConsistency30(u)
    \/ \E u \in Writers : CallCalorieBurner(u)
    \/ \E u \in Writers : CallEarlyBird(u)
    \/ \E u \in Writers : CallHydration(u)

Spec == Init /\ [][Next]_vars

-----------------------------------------------------------------------------
(* Concurrent requests: each process runs a BadgeChecker call one database  *)
(* query or insert at a time, so the calls of two requests interleave.  The *)
(* day-by-day queries of one streak or hydration scan are taken together.   *)

\* calls a process makes in a run
MaxCalls == 1

Entries ==
    {"check_all_badges", "check_first_workout_badge", "check_consistency_badge",
     "check_30_day_consistency", "check_calorie_burner_badges",
     "check_early_bird_badge", "check_hydration_badge"}

\* a check_all_badges that begins at the consistency check
FirstPc_skips_first_workout(entry) ==
    CASE entry = "check_all_badges" -> "c7_exists"
      [] entry = "check_first_workout_badge" -> "fw_exists"
      [] entry = "check_consistency_badge" -> "c7_exists"
      [] entry = "check_30_day_consistency" -> "c30_exists"
      [] entry = "check_calorie_burner_badges" -> "cal_total"
      [] entry = "check_early_bird_badge" -> "eb_exists"
      [] entry = "check_hydration_badge" -> "hy_exists"

\* where each entry point starts
FirstPc(entry) ==
    CASE entry = "check_all_badges" -> "fw_exists"
      [] entry = "check_first_workout_badge" -> "fw_exists"
      [] entry = "check_consistency_badge" -> "c7_exists"
      [] entry = "check_30_day_consistency" -> "c30_exists"
      [] entry = "check_calorie_burner_badges" -> "cal_total"
      [] entry = "check_early_bird_badge" -> "eb_exists"
      [] entry = "check_hydration_badge" -> "hy_exists"

Frame(u, entry, calls) ==
    [pc |-> FirstPc(entry), user |-> u, entry |-> entry, calls |-> calls,
     held |-> FALSE, streak |-> 0, total |-> 0, target |-> 0,
     awarded |-> <<>>, total_badges |-> 0]

\* a check returns: check_all_badges goes on to its next check
Goto(f, next) ==
    IF f.entry = "check_all_badges" THEN [f EXCEPT !.pc = next]
    ELSE [f EXCEPT !.pc = "done"]

\* an insert step on a table that accepts a second row for the pair
Insert_unconstrained(f, B, k, next) ==
    [f |-> Goto([f EXCEPT !.awarded = Append(f.awarded, k)], next),
     badges |-> B (+) SetToBag({BadgeRow(f.user, k)})]

\* an insert whose rejection also takes back the rows the call created
Insert_rollback(f, B, k, next) ==
    LET c == Badge_create(B, f.user, k)
        mine == {BadgeRow(f.user, a) : a \in {f.awarded[i] : i \in DOMAIN f.awarded}}
    IN  IF c.ok
        THEN [f |-> Goto([f EXCEPT !.awarded = Append(f.awarded, k)], next),
              badges |-> c.badges]
        ELSE [f |-> [f EXCEPT !.pc = "raised"],
              badges |-> c.badges (-) SetToBag(mine)]

\* Badge.objects.create, then `next`; IntegrityError ends the call
Insert(f, B, k, next) ==
    LET c == Badge_create(B, f.user, k)
    IN  IF c.ok
        THEN [f |-> Goto([f EXCEPT !.awarded = Append(f.awarded, k)], next),
              badges |-> c.badges]
        ELSE [f |-> [f EXCEPT !.pc = "raised"], badges |-> c.badges]

Stay(f, B) == [f |-> f, badges |-> B]

\* after the 1000 tier: the 5000 tier's condition, left to right
AfterTier1(f) ==
    IF f.total >= 5000 THEN [f EXCEPT !.pc = "cal5_exists"]
    ELSE Goto([f EXCEPT !.total = 0], "eb_exists")

\* one step of the call in frame f on Badge table B
Step(f, B) ==
    LET u == f.user
    IN  CASE f.pc = "fw_exists" ->
               Stay(IF BadgeExists(B, u, "FIRST_WORKOUT") THEN Goto(f, "c7_exists")
                    ELSE [f EXCEPT !.pc = "fw_query"], B)
          [] f.pc = "fw_query" ->
               Stay(IF ActivitiesOf(activities, u) # {}
                    THEN [f EXCEPT !.pc = "fw_create"]
                    ELSE Goto(f, "c7_exists"), B)
          [] f.pc = "fw_create" -> Insert(f, B, "FIRST_WORKOUT", "c7_exists")
          [] f.pc = "c7_exists" ->
               Stay([f EXCEPT !.pc = "c7_streak",
                              !.held = BadgeExists(B, u, "CONSISTENCY_7")], B)
          [] f.pc = "c7_streak" ->
               LET streak == calculate_current_streak(u)
                   g == [f EXCEPT !.streak = streak, !.held = FALSE]
               IN  Stay(IF ~f.held /\ streak >= 7
                        THEN [g EXCEPT !.pc = "c7_create"]
                        ELSE Goto(g, "c30_exists"), B)
          [] f.pc = "c7_create" -> Insert(f, B, "CONSISTENCY_7", "c30_exists")
          [] f.pc = "c30_exists" ->
               Stay([f EXCEPT !.pc = "c30_streak",
                              !.held = BadgeExists(B, u, "CONSISTENCY_30")], B)
          [] f.pc = "c30_streak" ->
               LET streak == calculate_current_streak(u)
                   g == [f EXCEPT !.held = FALSE,
                                  !.streak = IF f.entry = "check_all_badges"
                                             THEN f.streak ELSE streak]
               IN  Stay(IF ~f.held /\ streak >= 30
                        THEN [g EXCEPT !.pc = "c30_create"]
                        ELSE Goto(g, "cal_total"), B)
          [] f.pc = "c30_create" -> Insert(f, B, "CONSISTENCY_30", "cal_total")
          [] f.pc = "cal_total" ->
               LET g == [f EXCEPT !.total = TotalCalories(activities, u)]
               IN  Stay(IF g.total >= 1000 THEN [g EXCEPT !.pc = "cal1_exists"]
                        ELSE AfterTier1(g), B)
          [] f.pc = "cal1_exists" ->
               Stay(IF ~BadgeExists(B, u, "CALORIE_BURNER_1000")
                    THEN [f EXCEPT !.pc = "cal1_create"]
                    ELSE AfterTier1(f), B)
          [] f.pc = "cal1_create" ->
               LET c == Badge_create(B, u, "CALORIE_BURNER_1000")
               IN  IF c.ok
                   THEN [f |-> AfterTier1([f EXCEPT !.awarded =
                                   Append(f.awarded, "CALORIE_BURNER_1000")]),
                         badges |-> c.badges]
                   ELSE [f |-> [f EXCEPT !.pc = "raised"], badges |-> c.badges]
          [] f.pc = "cal5_exists" ->
               Stay(IF ~BadgeExists(B, u, "CALORIE_BURNER_5000")
                    THEN [f EXCEPT !.pc = "cal5_create"]
                    ELSE Goto([f EXCEPT !.total = 0], "eb_exists"), B)
          [] f.pc = "cal5_create" ->
               Insert([f EXCEPT !.total = 0], B, "CALORIE_BURNER_5000", "eb_exists")
          [] f.pc = "eb_exists" ->
               Stay(IF BadgeExists(B, u, "EARLY_BIRD") THEN Goto(f, "hy_exists")
                    ELSE [f EXCEPT !.pc = "eb_query"], B)
          [] f.pc = "eb_query" ->
               Stay(IF \E r \in ActivitiesOf(activities, u) : r.hour < 7
                    THEN [f EXCEPT !.pc = "eb_create"]
                    ELSE Goto(f, "hy_exists"), B)
          [] f.pc = "eb_create" -> Insert(f, B, "EARLY_BIRD", "hy_exists")
          [] f.pc = "hy_exists" ->
               Stay(IF BadgeExists(B, u, "HYDRATION_MASTER") THEN Goto(f, "count")
                    ELSE [f EXCEPT !.pc = "hy_profile"], B)
          [] f.pc = "hy_profile" ->
               Stay([f EXCEPT !.pc = "hy_scan", !.target = WaterTarget(u)], B)
          [] f.pc = "hy_scan" ->
               LET g == [f EXCEPT !.target = 0]
               IN  Stay(IF HydrationScan(u, f.target, today, 0, 0) >= 7
                        THEN [g EXCEPT !.pc = "hy_create"]
                        ELSE Goto(g, "count"), B)
          [] f.pc = "hy_create" -> Insert(f, B, "HYDRATION_MASTER", "count")
          [] f.pc = "count" ->
               Stay([f EXCEPT !.pc = "done",
                              !.total_badges = BadgeCount(B, u)], B)

Running(f) == f.pc \notin {"idle", "done", "raised"}

\* a request enters a BadgeChecker call
StartCall(p, u, entry) ==
    /\ ~Running(proc[p])
    /\ LET calls == IF proc[p].pc = "idle" THEN 0 ELSE proc[p].calls
       IN  /\ calls < MaxCalls
           /\ proc' = [proc EXCEPT ![p] = Frame(u, entry, calls + 1)]
    /\ UNCHANGED <<today, activities, water, profiles, badges, nops,
                   meals, biometrics, goals>>

\* the call of process p runs its next query or insert
ProcStep(p) ==
    /\ Running(proc[p])
    /\ LET r == Step(proc[p], badges)
       IN  /\ proc' = [proc EXCEPT ![p] = r.f]
           /\ badges' = r.badges
    /\ UNCHANGED <<today, activities, water, profiles, nops,
                   meals, biometrics, goals>>

\* the stores of Week and Month after the user has logged an early workout
\* and enough water today
LoggedToday(s, T) ==
    [s EXCEPT !.activities = @ (+) SetToBag({ActivityRow("u1", T, 6, 280)}),
              !.water = @ (+) SetToBag({WaterRow("u1", T, 2500)})]

InitStoresC(T) == InitStores(T) \cup {LoggedToday(Week(T), T), LoggedToday(Month(T), T)}

InitC ==
    /\ today = StartDay
    /\ \E s \in InitStoresC(StartDay) :
          /\ activities = s.activities
          /\ water = s.water
          /\ profiles = s.profiles
    /\ badges = EmptyBag
    /\ meals = EmptyBag
    /\ biometrics = EmptyBag
    /\ goals = EmptyBag
    /\ nops = 0
    /\ proc = [p \in Procs |-> Idle]

\* two requests of one user, each a BadgeChecker call run in steps
NextC ==
    \/ \E p \in Procs, u \in Writers, entry \in Entries : StartCall(p, u, entry)
    \/ \E p \in Procs : ProcStep(p)

SpecC == InitC /\ [][NextC]_vars

\* the writing requests and the calls of Spec, one at a time, while one more
\* request runs check_all_badges in steps
NextW ==
    \/ \E u \in Writers, k \in LogKinds, h \in Hours :
          log_activity(u, k[1], k[2], h)
    \/ \E u \in Writers, row \in BagToSet(activities) : delete_activity(u, row)
    \/ \E u \in Writers, ml \in Volumes : log_water(u, ml)
    \/ DayChange
    \/ \E u \in Writers : CallCheckAll(u)
    \/ \E u \in Writers : CallFirstWorkout(u)
    \/ \E u \in Writers : CallConsistency(u)
    \/ \E u \in Writers : CallConsistency30(u)
    \/ \E u \in Writers : CallCalorieBurner(u)
    \/ \E u \in Writers : CallEarlyBird(u)
    \/ \E u \in Writers : CallHydration(u)
    \/ \E u \in Writers : StartCall("p1", u, "check_all_badges")
    \/ ProcStep("p1")

SpecW == Init /\ [][NextW]_vars

-----------------------------------------------------------------------------
(* Streak computation over date sets: every pattern of the last days, and   *)
(* runs of a year and more                                                   *)

\* the pattern window, in days back from the initial day
PatternDays == 4

LongRuns == {365, 366, 367, 800}

InitS ==
    /\ today = StartDay
    /\ \/ \E D \in SUBSET ((StartDay - PatternDays)..StartDay) :
             activities = SetToBag({ActivityRow("u1", d, 12, 100) : d \in D})
       \/ \E n \in LongRuns :
             activities = ActivityRun("u1", StartDay - n + 1, StartDay, 12, 100)
    /\ water = EmptyBag
    /\ profiles = [u \in Users |-> Profile(None, "SEDENTARY")]
    /\ badges = EmptyBag
    /\ meals = EmptyBag
    /\ biometrics = EmptyBag
    /\ goals = EmptyBag
    /\ nops = 0
    /\ proc = [p \in Procs |-> Idle]

NextS ==
    \/ \E u \in Writers, k \in LogKinds, h \in Hours :
          log_activity(u, k[1], k[2], h)
    \/ \E u \in Writers, row \in BagToSet(activities) : delete_activity(u, row)
    \/ DayChange
    \/ \E u \in Writers : CallConsistency(u)
    \/ \E u \in Writers : CallConsistency30(u)

SpecS == InitS /\ [][NextS]_vars

-----------------------------------------------------------------------------
(* The daily tip of the dashboard *)

HydrationAlert == "Hydration Alert: Try to drink more water today."

HighBurn == "Great work! You hit a high burn yesterday."

KeepUp == "Keep up the great work! Stay consistent with your fitness journey."

\* ActivityLog.objects.filter(user=user, date_created__date=d)
\*     .aggregate(total=Sum('calories_burned'))['total'] or 0
CaloriesOn(A, u, d) ==
    LET rows == {r \in ActivitiesOf(A, u) : r.day = d}
    IN  SumOver(rows, A, [r \in rows |-> r.calories])

\* a tip that looks at the calories before the water
generate_daily_tip_burn_first(u) ==
    LET yesterday == today - 1
    IN  IF CaloriesOn(activities, u, yesterday) > 500 THEN HighBurn
        ELSE IF get_daily_total(water, u, yesterday) < 2000 THEN HydrationAlert
        ELSE KeepUp

\* a tip that gives no message when yesterday has no water record
generate_daily_tip_no_data(u) ==
    LET yesterday == today - 1
    IN  IF \A r \in BagToSet(water) : ~(r.user = u /\ r.day = yesterday)
        THEN ""
        ELSE IF get_daily_total(water, u, yesterday) < 2000 THEN HydrationAlert
        ELSE IF CaloriesOn(activities, u, yesterday) > 500 THEN HighBurn
        ELSE KeepUp

\* a tip whose water total takes the rows of every user
daily_tip_any_user(W, A, T, u) ==
    LET yesterday == T - 1
        rows == {r \in BagToSet(W) : r.day = yesterday}
    IN  IF SumOver(rows, W, [r \in rows |-> r.milliliters]) < 2000
        THEN HydrationAlert
        ELSE IF CaloriesOn(A, u, yesterday) > 500 THEN HighBurn
        ELSE KeepUp

\* utils.generate_daily_tip on the tables W and A at date T: the first rule
\* that matches yesterday's data
daily_tip(W, A, T, u) ==
    LET yesterday == T - 1
    IN  IF get_daily_total(W, u, yesterday) < 2000 THEN HydrationAlert
        ELSE IF CaloriesOn(A, u, yesterday) > 500 THEN HighBurn
        ELSE KeepUp

generate_daily_tip(u) == daily_tip(water, activities, today, u)

\* views.dashboard: the profile row is created when missing; the request of
\* process p ends holding the tip it rendered
dashboard(p, u) ==
    /\ profiles' = IF profiles[u].exists THEN profiles
                   ELSE [profiles EXCEPT ![u] = Profile(None, "SEDENTARY")]
    /\ proc' = [proc EXCEPT ![p] =
                   [pc |-> "done", user |-> u, entry |-> "dashboard",
                    day |-> today, awarded |-> <<>>,
                    daily_tip |-> generate_daily_tip(u)]]
    /\ UNCHANGED <<today, activities, water, badges, nops, meals, biometrics,
                   goals>>

\* yesterday's water records and yesterday's calories, one row per entry
TipWater == {<<>>, <<1999>>, <<2000>>, <<1750, 250>>, <<250, 250>>}

TipCalories == {<<>>, <<500>>, <<501>>, <<250, 250>>, <<250, 251>>}

\* the rows of one day, one for each entry of the sequence
RECURSIVE WaterRows(_, _, _)
WaterRows(u, d, seq) ==
    IF seq = <<>> THEN EmptyBag
    ELSE SetToBag({WaterRow(u, d, Head(seq))}) (+) WaterRows(u, d, Tail(seq))

RECURSIVE ActivityRows(_, _, _)
ActivityRows(u, d, seq) ==
    IF seq = <<>> THEN EmptyBag
    ELSE SetToBag({ActivityRow(u, d, 12, Head(seq))})
         (+) ActivityRows(u, d, Tail(seq))

\* records of today and of the day before yesterday, and yesterday's
\* records of another user
OtherDays(T) ==
    [activities |-> ActivityRows("u1", T, <<900>>)
                    (+) ActivityRows("u1", T - 2, <<900>>)
                    (+) ActivityRows("u2", T - 1, <<900>>),
     water |-> WaterRows("u1", T - 2, <<3000>>)
               (+) WaterRows("u2", T - 1, <<3000>>)]

InitT ==
    /\ today = StartDay
    /\ \E w \in TipWater, c \in TipCalories, other \in BOOLEAN :
          /\ water = WaterRows("u1", StartDay - 1, w)
                     (+) (IF other THEN OtherDays(StartDay).water ELSE EmptyBag)
          /\ activities = ActivityRows("u1", StartDay - 1, c)
                          (+) (IF other THEN OtherDays(StartDay).activities
                               ELSE EmptyBag)
    /\ \E pr \in {NoProfile} \cup {Profile(f[1], f[2]) : f \in ProfileForms} :
          profiles = [u \in Users |-> IF u = "u1" THEN pr ELSE NoProfile]
    /\ badges = EmptyBag
    /\ meals = EmptyBag
    /\ biometrics = EmptyBag
    /\ goals = EmptyBag
    /\ nops = 0
    /\ proc = [p \in Procs |-> Idle]

NextT ==
    \/ \E u \in Writers, k \in LogKinds, h \in Hours :
          log_activity(u, k[1], k[2], h)
    \/ \E u \in Writers, ml \in Volumes : log_water(u, ml)
    \/ DayChange
    \/ \E u \in Users : dashboard("p1", u)

SpecT == InitT /\ [][NextT]_vars

-----------------------------------------------------------------------------
(* FitnessCalculator on arbitrary arguments.  An argument is a number, None  *)
(* or a string that is no number; a call yields a value, None, or raises.    *)
(* Values with two decimals are carried in hundredths.                       *)

Num(n) == [tag |-> "num", val |-> n]

NoneValue == [tag |-> "none", val |-> 0]

Text == [tag |-> "str", val |-> 0]

\* a date as <<year, month, day>>
Date(y, m, d) == [tag |-> "date", val |-> <<y, m, d>>]

Value(v) == [tag |-> "value", val |-> v]

NoneResult == [tag |-> "none", val |-> 0]

Raises(exc) == [tag |-> "raises", val |-> exc]

\* float(x) succeeds on a number; it raises TypeError on None and ValueError
\* on a string that is no number
IsFloat(x) == x.tag = "num"

\* FitnessCalculator.calculate_bmi, in hundredths
calculate_bmi(weight_kg, height_cm) ==
    IF ~IsFloat(weight_kg) \/ ~IsFloat(height_cm) THEN NoneResult
    ELSE IF weight_kg.val <= 0 \/ height_cm.val <= 0 THEN NoneResult
    ELSE Value(Round(weight_kg.val * 1000000, height_cm.val * height_cm.val))

\* FitnessCalculator.get_bmi_category, bmi in hundredths: no conversion and
\* no try block, so comparing None or a string with 18.5 raises TypeError
get_bmi_category(bmi) ==
    IF bmi.tag # "num" THEN Raises("TypeError")
    ELSE IF bmi.val < 1850 THEN Value("Underweight")
    ELSE IF bmi.val < 2500 THEN Value("Normal weight")
    ELSE IF bmi.val < 3000 THEN Value("Overweight")
    ELSE Value("Obese")

\* a BMR that adds 30 for men
calculate_bmr_plus30(weight_kg, height_cm, age, gender) ==
    IF ~IsFloat(weight_kg) \/ ~IsFloat(height_cm) THEN NoneResult
    ELSE IF weight_kg.val <= 0 \/ height_cm.val <= 0 THEN NoneResult
    ELSE IF age.tag # "num" THEN NoneResult
    ELSE IF age.val <= 0 THEN NoneResult
    ELSE LET bmr == 1000 * weight_kg.val + 625 * height_cm.val - 500 * age.val
         IN  Value(IF gender = "M" THEN bmr + 3000 ELSE bmr - 16100)

\* FitnessCalculator.calculate_bmr, in hundredths; age <= 0 on None or a
\* string raises TypeError, which is caught
calculate_bmr(weight_kg, height_cm, age, gender) ==
    IF ~IsFloat(weight_kg) \/ ~IsFloat(height_cm) THEN NoneResult
    ELSE IF weight_kg.val <= 0 \/ height_cm.val <= 0 THEN NoneResult
    ELSE IF age.tag # "num" THEN NoneResult
    ELSE IF age.val <= 0 THEN NoneResult
    ELSE LET bmr == 1000 * weight_kg.val + 625 * height_cm.val - 500 * age.val
         IN  Value(IF gender = "M" THEN bmr + 500 ELSE bmr - 16100)

\* ACTIVITY_MULTIPLIERS, in hundredths; 1.2 for an unknown level
ACTIVITY_MULTIPLIERS(activity_level) ==
    CASE activity_level = "SEDENTARY" -> 120
      [] activity_level = "ACTIVE" -> 155
      [] activity_level = "ATHLETE" -> 190
      [] OTHER -> 120

\* FitnessCalculator.calculate_tdee, bmr and result in hundredths
calculate_tdee(bmr, activity_level) ==
    IF bmr.tag # "num" THEN NoneResult
    ELSE IF bmr.val <= 0 THEN NoneResult
    ELSE Value(Round(bmr.val * ACTIVITY_MULTIPLIERS(activity_level), 100))

\* FitnessCalculator.calculate_age on the date `now`
calculate_age(now, date_of_birth) ==
    IF date_of_birth.tag # "date" THEN NoneResult
    ELSE LET b == date_of_birth.val
             before == now[2] < b[2] \/ (now[2] = b[2] /\ now[3] < b[3])
             age == now[1] - b[1] - (IF before THEN 1 ELSE 0)
         IN  IF age >= 0 THEN Value(age) ELSE NoneResult

\* FitnessCalculator.calculate_ideal_weight_range, in hundredths
calculate_ideal_weight_range(height_cm) ==
    IF ~IsFloat(height_cm) THEN NoneResult
    ELSE IF height_cm.val <= 0 THEN NoneResult
    ELSE Value([min |-> Round(185 * height_cm.val * height_cm.val, 1000),
                max |-> Round(249 * height_cm.val * height_cm.val, 1000)])

\* FitnessCalculator.calculate_macros, tdee in kcal, grams in hundredths
calculate_macros(tdee, goal) ==
    IF tdee.tag # "num" THEN NoneResult
    ELSE IF tdee.val <= 0 THEN NoneResult
    ELSE LET ratios == CASE goal = "WEIGHT_LOSS" -> <<40, 30, 30>>
                         [] goal = "MUSCLE_GAIN" -> <<30, 50, 20>>
                         [] OTHER -> <<30, 40, 30>>
         IN  Value([protein_g |-> Round(tdee.val * ratios[1], 4),
                    carbs_g |-> Round(tdee.val * ratios[2], 4),
                    fat_g |-> Round(tdee.val * ratios[3], 9),
                    calories |-> tdee.val * 100])

\* an integer result of the calculator, or None
IntResult(v) == IF v = None THEN NoneResult ELSE Value(v)

\* a number as the integer operators above take it; None and strings fail
\* the conversion or the comparison, which is caught
Plain(x) == IF x.tag = "num" THEN x.val ELSE None

\* the call of calculator function fn on arguments args
Calculate(fn, args) ==
    CASE fn = "calculate_bmi" -> calculate_bmi(args[1], args[2])
      [] fn = "get_bmi_category" -> get_bmi_category(args[1])
      [] fn = "calculate_bmr" ->
            calculate_bmr(args[1], args[2], args[3], args[4])
      [] fn = "calculate_tdee" -> calculate_tdee(args[1], args[2])
      [] fn = "estimate_calories_burned" ->
            IF args[2].tag # "num" THEN NoneResult
            ELSE IntResult(estimate_calories_burned(args[1], args[2].val,
                                                    Plain(args[3])))
      [] fn = "calculate_age" -> calculate_age(args[1], args[2])
      [] fn = "calculate_ideal_weight_range" ->
            calculate_ideal_weight_range(args[1])
      [] fn = "calculate_macros" -> calculate_macros(args[1], args[2])
      [] fn = "calculate_water_intake_target" ->
            IntResult(calculate_water_intake_target(Plain(args[1]), args[2]))

\* arguments the view layer and the tests pass to the calculator
CalcWeights == {NoneValue, Text, Num(0), Num(0 - 5), Num(70), Num(80)}

CalcHeights == {NoneValue, Text, Num(0), Num(175)}

CalcAges == {NoneValue, Text, Num(0), Num(30)}

CalcBmis ==
    {NoneValue, Text, Num(0), Num(0 - 300), Num(1849), Num(1850), Num(2286),
     Num(2500), Num(3000)}

CalcBmrs == {NoneValue, Text, Num(0), Num(164875)}

CalcDurations == {NoneValue, Text, Num(0), Num(30), Num(45), Num(60)}

CalcTdees == {NoneValue, Text, Num(0), Num(2500)}

CalcBirthDates == {NoneValue, Text, Date(1990, 5, 15), Date(2999, 1, 1)}

CalcNow == {<<2026, 5, 14>>, <<2026, 5, 15>>}

CalcKinds == DOMAIN MET_VALUES \cup {"UNKNOWN"}

CalcGenders == {"M", "F", "O"}

CalcGoals == {"WEIGHT_LOSS", "MUSCLE_GAIN", "MAINTAIN"}

\* a request of process p calls calculator function fn and keeps the result
Calc(p, fn, args) ==
    /\ proc' = [proc EXCEPT ![p] =
                   [pc |-> "done", user |-> "u1", entry |-> "calculator",
                    awarded |-> <<>>, fn |-> fn, args |-> args,
                    result |-> Calculate(fn, args)]]
    /\ UNCHANGED <<today, activities, water, profiles, badges, nops,
                   meals, biometrics, goals>>

NextM ==
    \/ \E w \in CalcWeights, h \in CalcHeights :
          Calc("p1", "calculate_bmi", <<w, h>>)
    \/ \E bmi \in CalcBmis : Calc("p1", "get_bmi_category", <<bmi>>)
    \/ \E w \in CalcWeights, h \in CalcHeights, a \in CalcAges,
          g \in CalcGenders :
          Calc("p1", "calculate_bmr", <<w, h, a, g>>)
    \/ \E bmr \in CalcBmrs, lvl \in ACTIVITY_LEVEL_CHOICES :
          Calc("p1", "calculate_tdee", <<bmr, lvl>>)
    \/ \E k \in CalcKinds, d \in CalcDurations, w \in CalcWeights :
          Calc("p1", "estimate_calories_burned", <<k, d, w>>)
    \/ \E now \in CalcNow, b \in CalcBirthDates :
          Calc("p1", "calculate_age", <<now, b>>)
    \/ \E h \in CalcHeights : Calc("p1", "calculate_ideal_weight_range", <<h>>)
    \/ \E t \in CalcTdees, g \in CalcGoals :
          Calc("p1", "calculate_macros", <<t, g>>)
    \/ \E w \in CalcWeights, lvl \in ACTIVITY_LEVEL_CHOICES :
          Calc("p1", "calculate_water_intake_target", <<w, lvl>>)

SpecM == Init /\ [][NextM]_vars

-----------------------------------------------------------------------------
(* Every handler that writes, the dashboard and the badge checks together *)

MealRow(u, d, kcal) == [user |-> u, day |-> d, calories |-> kcal]

BiometricsRow(u, d, w) == [user |-> u, day |-> d, weight_kg |-> w]

MealCalories == {250}

BiometricsWeights == {80}

\* views.log_meal_quick: one MealLog row; the totals it answers with are read
\* from MealLog alone
log_meal_quick(u, calories) ==
    /\ nops < MaxOps
    /\ meals' = meals (+) SetToBag({MealRow(u, today, calories)})
    /\ nops' = nops + 1
    /\ UNCHANGED <<today, activities, water, profiles, badges, proc,
                   biometrics, goals>>

\* views.update_biometrics: one BiometricsLog row, and the weight copied to
\* the profile, which is created with that weight when missing
update_biometrics(u, weight_kg) ==
    /\ nops < MaxOps
    /\ biometrics' = biometrics (+) SetToBag({BiometricsRow(u, today, weight_kg)})
    /\ profiles' = IF profiles[u].exists
                   THEN [profiles EXCEPT ![u].weight_kg = weight_kg]
                   ELSE [profiles EXCEPT ![u] = Profile(weight_kg, "SEDENTARY")]
    /\ nops' = nops + 1
    /\ UNCHANGED <<today, activities, water, badges, proc, meals, goals>>

\* the handlers outside the badge engine
CoreStep ==
    \/ \E u \in Writers, k \in LogKinds, h \in Hours :
          log_activity(u, k[1], k[2], h)
    \/ \E u \in Writers, row \in BagToSet(activities), k \in EditKinds :
          edit_activity(u, row, k[1], k[2])
    \/ \E u \in Writers, row \in BagToSet(activities) : delete_activity(u, row)
    \/ \E u \in Writers, ml \in Volumes : log_water(u, ml)
    \/ \E u \in Writers, kcal \in MealCalories : log_meal_quick(u, kcal)
    \/ \E u \in Writers, w \in BiometricsWeights : update_biometrics(u, w)
    \/ \E u \in Writers, f \in ProfileForms : update_profile(u, f[1], f[2])
    \/ \E u \in Users : dashboard("p1", u)

\* BadgeChecker calls: check_all_badges as badges_view runs it, and each check
EngineStep ==
    \/ \E u \in Users : CallCheckAll(u)
    \/ \E u \in Writers : CallFirstWorkout(u)
    \/ \E u \in Writers : CallConsistency(u)
    \/ \E u \in Writers : CallConsistency30(u)
    \/ \E u \in Writers : CallCalorieBurner(u)
    \/ \E u \in Writers : CallEarlyBird(u)
    \/ \E u \in Writers : CallHydration(u)

NextF ==
    \/ CoreStep
    \/ DayChange
    \/ EngineStep

SpecF == Init /\ [][NextF]_vars

-----------------------------------------------------------------------------
(* check_all_badges as the only creator of badges: calls that run alone,     *)
(* and calls of one request run in steps while the user logs or deletes      *)
(* activities.  The frame of the stepwise request remembers whether a write  *)
(* was made between two of its steps.                                        *)

\* nothing written while a call of the request ran
Undisturbed == [seen |-> 0, interleaved |-> FALSE]

\* the request of process p enters check_all_badges
StartCheckAll(p, u) ==
    /\ ~Running(proc[p])
    /\ LET idle == proc[p].pc = "idle"
           calls == IF idle THEN 0 ELSE proc[p].calls
           before == IF idle THEN FALSE ELSE proc[p].interleaved
       IN  /\ calls < MaxCalls
           /\ proc' = [proc EXCEPT ![p] =
                  Frame(u, "check_all_badges", calls + 1)
                  @@ [Undisturbed EXCEPT !.seen = nops, !.interleaved = before]]
    /\ UNCHANGED <<today, activities, water, profiles, badges, nops,
                   meals, biometrics, goals>>

\* the call of process p runs its next query or insert
CheckAllStep(p) ==
    /\ Running(proc[p])
    /\ LET r == Step(proc[p], badges)
       IN  /\ proc' = [proc EXCEPT ![p] =
                  [r.f EXCEPT !.seen = nops,
                              !.interleaved = @ \/ nops # proc[p].seen]]
           /\ badges' = r.badges
    /\ UNCHANGED <<today, activities, water, profiles, nops,
                   meals, biometrics, goals>>

NextI ==
    \/ \E u \in Writers, k \in LogKinds, h \in Hours :
          log_activity(u, k[1], k[2], h)
    \/ \E u \in Writers, row \in BagToSet(activities) : delete_activity(u, row)
    \/ DayChange
    \/ \E u \in Users : CallCheckAll(u)
    \/ \E u \in Writers : StartCheckAll("p1", u)
    \/ CheckAllStep("p1")

SpecI == Init /\ [][NextI]_vars

-----------------------------------------------------------------------------
(* Two users, each logging, deleting and being checked *)

\* a request of user v: logging or deleting an activity, logging water, or
\* the badge check
OperationOf(v) ==
    \/ \E k \in LogKinds, h \in Hours : log_activity(v, k[1], k[2], h)
    \/ \E row \in BagToSet(activities) : delete_activity(v, row)
    \/ \E ml \in Volumes : log_water(v, ml)
    \/ CallCheckAll(v)

NextU ==
    \/ \E v \in Users : OperationOf(v)
    \/ DayChange

\* short histories: nothing logged, or a few records of either user
InitU ==
    /\ today = StartDay
    /\ \E s \in {Fresh(StartDay), Gap(StartDay)} :
          /\ activities = s.activities
          /\ water = s.water
          /\ profiles = s.profiles
    /\ badges = EmptyBag
    /\ meals = EmptyBag
    /\ biometrics = EmptyBag
    /\ goals = EmptyBag
    /\ nops = 0
    /\ proc = [p \in Procs |-> Idle]

SpecU == InitU /\ [][NextU]_vars

-----------------------------------------------------------------------------
(* The two reading calls of BadgeChecker beside logging and checking *)

\* BadgeChecker.get_user_badges: the user's Badge rows (their order by
\* earned_date is left out)
get_user_badges(B, u) == {r \in BagToSet(B) : r.user = u}

\* a progress call that also creates the badges it finds complete
ViewProgress_awarding(p, u) ==
    LET progress == get_badge_progress(badges, u)
        complete == {k \in {"CONSISTENCY_7", "CONSISTENCY_30",
                            "CALORIE_BURNER_1000", "CALORIE_BURNER_5000"} :
                        /\ ~BadgeExists(badges, u, k)
                        /\ \E key \in DOMAIN progress :
                              /\ progress[key].percentage = 100
                              /\ progress[key].required
                                    = (CASE k = "CONSISTENCY_7" -> 7
                                         [] k = "CONSISTENCY_30" -> 30
                                         [] k = "CALORIE_BURNER_1000" -> 1000
                                         [] OTHER -> 5000)}
    IN  /\ proc' = [proc EXCEPT ![p] =
                       [pc |-> "done", user |-> u, entry |-> "get_badge_progress",
                        awarded |-> <<>>, progress |-> progress]]
        /\ badges' = badges (+) SetToBag({BadgeRow(u, k) : k \in complete})
        /\ UNCHANGED <<today, activities, water, profiles, nops, meals,
                       biometrics, goals>>

\* a request of process p calls get_badge_progress and keeps the report
ViewProgress(p, u) ==
    /\ proc' = [proc EXCEPT ![p] =
                   [pc |-> "done", user |-> u, entry |-> "get_badge_progress",
                    awarded |-> <<>>,
                    progress |-> get_badge_progress(badges, u)]]
    /\ UNCHANGED <<today, activities, water, profiles, badges, nops,
                   meals, biometrics, goals>>

\* a request of process p calls get_user_badges and keeps the rows
ViewBadges(p, u) ==
    /\ proc' = [proc EXCEPT ![p] =
                   [pc |-> "done", user |-> u, entry |-> "get_user_badges",
                    awarded |-> <<>>, earned |-> get_user_badges(badges, u)]]
    /\ UNCHANGED <<today, activities, water, profiles, badges, nops,
                   meals, biometrics, goals>>

NextR ==
    \/ \E u \in Writers, k \in LogKinds, h \in Hours :
          log_activity(u, k[1], k[2], h)
    \/ \E u \in Writers, row \in BagToSet(activities) : delete_activity(u, row)
    \/ DayChange
    \/ \E u \in Users : CallCheckAll(u)
    \/ \E u \in Users : ViewProgress("p1", u)
    \/ \E u \in Users : ViewBadges("p1", u)

SpecR == Init /\ [][NextR]_vars

-----------------------------------------------------------------------------
(* Goals: rows kept through the admin site, read by the dashboard *)

GoalTargets == {0, 1, 1600, 6400, 10000000}

GoalCurrents == {0, 1, 1599, 1600, 6400, 7000, 9999999, 10000000}

\* GoalAdmin's change form: a new current value for a goal
goal_admin_save(row, current_value) ==
    /\ nops < MaxOps
    /\ BagIn(row, goals)
    /\ goals' = (goals (-) SetToBag({row}))
                (+) SetToBag({[row EXCEPT !.current_value = current_value]})
    /\ nops' = nops + 1
    /\ UNCHANGED <<today, activities, water, profiles, badges, proc, meals,
                   biometrics>>

\* short histories, and one weight goal of the first user
InitG ==
    /\ today = StartDay
    /\ \E s \in {Fresh(StartDay), Gap(StartDay)} :
          /\ activities = s.activities
          /\ water = s.water
          /\ profiles = s.profiles
    /\ badges = EmptyBag
    /\ meals = EmptyBag
    /\ biometrics = EmptyBag
    /\ \E t \in GoalTargets, c \in GoalCurrents :
          goals = SetToBag({GoalRow("u1", "WEIGHT", t, c)})
    /\ nops = 0
    /\ proc = [p \in Procs |-> Idle]

NextG ==
    \/ \E u \in Writers, k \in LogKinds, h \in Hours :
          log_activity(u, k[1], k[2], h)
    \/ \E u \in Writers, w \in BiometricsWeights : update_biometrics(u, w)
    \/ \E row \in BagToSet(goals), c \in GoalCurrents : goal_admin_save(row, c)
    \/ DayChange
    \/ \E u \in Users : CallCheckAll(u)

SpecG == InitG /\ [][NextG]_vars

-----------------------------------------------------------------------------
(* ActivityLog rows saved directly, with or without a calorie value *)

SaveKinds == DOMAIN met_values

SaveDurations == {1, 30, 45}

SaveCalories == {None, 0, 300}

SaveProfiles ==
    {NoProfile, Profile(None, "SEDENTARY"), Profile(55, "SEDENTARY"),
     Profile(82, "ACTIVE")}

\* ActivityLog.objects.create: ActivityLog.save of a new row, calories given
\* or not; the caller keeps what it passed and the row that was saved
ActivityLog_create(p, u, activity_type, duration_minutes, calories_burned) ==
    /\ nops < MaxOps
    /\ LET row == ActivityLog_save(u, activity_type, duration_minutes,
                                   calories_burned, today, 12)
       IN  /\ activities' = activities (+) SetToBag({row})
           /\ proc' = [proc EXCEPT ![p] =
                          [pc |-> "done", user |-> u,
                           entry |-> "ActivityLog.save", awarded |-> <<>>,
                           args |-> <<activity_type, duration_minutes,
                                      calories_burned>>,
                           profile |-> profiles[u],
                           result |-> row]]
    /\ nops' = nops + 1
    /\ UNCHANGED <<today, water, profiles, badges, meals, biometrics, goals>>

InitV ==
    /\ today = StartDay
    /\ activities = EmptyBag
    /\ water = EmptyBag
    /\ \E f \in SaveProfiles : profiles = [u \in Users |-> f]
    /\ badges = EmptyBag
    /\ meals = EmptyBag
    /\ biometrics = EmptyBag
    /\ goals = EmptyBag
    /\ nops = 0
    /\ proc = [p \in Procs |-> Idle]

NextV ==
    \E u \in Writers, k \in SaveKinds, d \in SaveDurations,
       c \in SaveCalories :
        ActivityLog_create("p1", u, k, d, c)

SpecV == InitV /\ [][NextV]_vars

-----------------------------------------------------------------------------
(* What the badges are awarded for, stated on the records themselves *)

Range(seq) == {seq[i] : i \in DOMAIN seq}

Min(a, b) == IF a < b THEN a ELSE b

\* the days on which the user has at least one activity
ActiveDays(u) == {r.day : r \in ActivitiesOf(activities, u)}

\* consecutive days with activity, counted back from today inclusive: the
\* distance from today to the latest day, today or earlier, without activity
ConsecutiveDays(u) ==
    LET back == BagCardinality(activities) + 1
        free == {d \in (today - back)..today : d \notin ActiveDays(u)}
    IN  today - (CHOOSE d \in free : \A e \in free : e <= d)

\* the badge kinds the engine evaluates
EngineKinds == BADGE_TYPES \ {"WEIGHT_GOAL"}

Satisfied(k, u) ==
    CASE k = "FIRST_WORKOUT" -> ActivitiesOf(activities, u) # {}
      [] k = "CONSISTENCY_7" -> ConsecutiveDays(u) >= 7
      [] k = "CONSISTENCY_30" -> ConsecutiveDays(u) >= 30
      [] k = "CALORIE_BURNER_1000" -> TotalCalories(activities, u) >= 1000
      [] k = "CALORIE_BURNER_5000" -> TotalCalories(activities, u) >= 5000
      [] k = "EARLY_BIRD" -> \E r \in ActivitiesOf(activities, u) : r.hour < 7
      [] k = "HYDRATION_MASTER" ->
            \A d \in (today - 6)..today :
                get_daily_total(water, u, d) >= WaterTarget(u)
      [] OTHER -> FALSE

\* the Badge table with one row added for each kind of K
WithBadges(B, u, K) == B (+) SetToBag({BadgeRow(u, k) : k \in K})

-----------------------------------------------------------------------------
(* Properties *)

Copies(B, u, k) == CopiesIn(BadgeRow(u, k), B)

\* C1: in every reachable state, whatever activity was logged or deleted,
\* whatever water was logged, whichever day it is and whichever checks have
\* run, the Badge table holds at most one row for each (user, kind); and
\* running check_all_badges twice in succession from that state leaves at
\* most one row for each pair as well.
C1_OneBadgePerUserAndKind ==
    \A u \in Users :
        LET once == check_all_badges(badges, u)
            twice == check_all_badges(once.badges, u)
        IN  \A k \in BADGE_TYPES :
                /\ Copies(badges, u, k) <= 1
                /\ Copies(twice.badges, u, k) <= 1

\* a stepwise check_all_badges finished without awarding anything, because
\* other calls had already awarded the user's badges after a write
C1_Witness ==
    /\ proc["p1"].pc = "done"
    /\ proc["p1"].awarded = <<>>
    /\ BadgeCount(badges, "u1") >= 3
    /\ nops >= 1

\* C2: for each of the seven kinds the engine evaluates, when the user
\* already holds the badge the corresponding check leaves the Badge rows of
\* that kind as they are, raises nothing and reports the badge as not newly
\* awarded, whatever the user's records are; so does check_all_badges.
C2_HeldBadgeCheckIsNoOp ==
    \A u \in Users :
        /\ BadgeExists(badges, u, "FIRST_WORKOUT") =>
              LET r == check_first_workout_badge(badges, u)
              IN  ~r.err /\ r.badges = badges /\ r.ret = FALSE
        /\ BadgeExists(badges, u, "CONSISTENCY_7") =>
              LET r == check_consistency_badge(badges, u)
              IN  ~r.err /\ r.badges = badges /\ r.ret[1] = FALSE
        /\ BadgeExists(badges, u, "CONSISTENCY_30") =>
              LET r == check_30_day_consistency(badges, u)
              IN  ~r.err /\ r.badges = badges /\ r.ret[1] = FALSE
        /\ BadgeExists(badges, u, "EARLY_BIRD") =>
              LET r == check_early_bird_badge(badges, u)
              IN  ~r.err /\ r.badges = badges /\ r.ret = FALSE
        /\ BadgeExists(badges, u, "HYDRATION_MASTER") =>
              LET r == check_hydration_badge(badges, u)
              IN  ~r.err /\ r.badges = badges /\ r.ret = FALSE
        /\ \A k \in {"CALORIE_BURNER_1000", "CALORIE_BURNER_5000"} :
              BadgeExists(badges, u, k) =>
                 LET r == check_calorie_burner_badges(badges, u)
                 IN  /\ ~r.err
                     /\ Copies(r.badges, u, k) = 1
                     /\ k \notin Range(r.ret)
        /\ LET r == check_all_badges(badges, u)
           IN  /\ ~r.err
               /\ \A k \in Held(badges, u) :
                     /\ Copies(r.badges, u, k) = Copies(badges, u, k)
                     /\ k \notin Range(r.ret.badges_awarded)

\* the user holds the first-workout and early-bird badges and still has the
\* records that earn them, and holds the 7-day badge with the streak gone
C2_Witness ==
    /\ {"FIRST_WORKOUT", "EARLY_BIRD", "CONSISTENCY_7"} \subseteq Held(badges, "u1")
    /\ Satisfied("FIRST_WORKOUT", "u1")
    /\ Satisfied("EARLY_BIRD", "u1")
    /\ ~Satisfied("CONSISTENCY_7", "u1")

\* C3: a badge a user holds is held in every later state: no edit or delete
\* of an activity, no water or profile write, no day change and no further
\* check removes a Badge row.
C3_EarnedIsPermanent ==
    [][\A u \in Users, k \in BADGE_TYPES :
          BadgeExists(badges, u, k) => BadgeExists(badges', u, k)]_vars

\* after a delete the user holds the 7-day and the 1000 kcal badge although
\* the streak is broken and the lifetime total is below 1000
C3_Witness ==
    /\ BadgeExists(badges, "u1", "CONSISTENCY_7")
    /\ BadgeExists(badges, "u1", "CALORIE_BURNER_1000")
    /\ ConsecutiveDays("u1") = 0
    /\ TotalCalories(activities, "u1") < 1000

\* the calls of the running or finished requests that report kind k as
\* created for user u
AwardedBy(u, k) ==
    {p \in Procs : /\ proc[p].pc # "idle"
                   /\ proc[p].user = u
                   /\ k \in Range(proc[p].awarded)}

\* C4: with two requests running BadgeChecker calls for one user at the same
\* time, in every interleaving of their queries and inserts, the Badge table
\* never holds two rows for a (user, kind) and at most one of the two calls
\* reports the badge as created by it: the insert of the second writer is
\* rejected.
C4_ConcurrentChecksKeepOneBadge ==
    \A u \in Users, k \in BADGE_TYPES :
        /\ Copies(badges, u, k) <= 1
        /\ Cardinality(AwardedBy(u, k)) <= 1

\* both requests passed the look-up before either inserted; one created the
\* badge and the insert of the other raised IntegrityError
C4_Witness ==
    \E p \in Procs, q \in Procs :
        /\ p # q
        /\ proc[p].pc = "raised"
        /\ proc[q].pc # "idle"
        /\ proc[q].awarded # <<>>
        /\ \A k \in Range(proc[q].awarded) : Copies(badges, "u1", k) = 1

\* the streak check_all_badges reports: the run of days, up to the scan's cap
ReportedStreak(u) == Min(ConsecutiveDays(u), StreakCap + 1)

\* C5: check_all_badges creates exactly the badges of the evaluated kinds
\* whose criteria are satisfied and which the user does not hold, returns
\* exactly those kinds as badges_awarded (each once), the current streak as
\* current_streak, and as total_badges the user's badge count after the
\* call, which is the count before plus the number newly awarded.
C5_CheckAllAwardsExactlyTheNewKinds ==
    \A u \in Users :
        LET r == check_all_badges(badges, u)
            new == {k \in EngineKinds : Satisfied(k, u)} \ Held(badges, u)
        IN  /\ ~r.err
            /\ r.badges = WithBadges(badges, u, new)
            /\ Range(r.ret.badges_awarded) = new
            /\ Len(r.ret.badges_awarded) = Cardinality(new)
            /\ r.ret.current_streak = ReportedStreak(u)
            /\ r.ret.total_badges = BadgeCount(r.badges, u)
            /\ r.ret.total_badges = BadgeCount(badges, u) + Cardinality(new)

\* one check_all_badges call on a 30-day history with 5000 kcal awarded five
\* badges at once
C5_Witness ==
    /\ Held(badges, "u1") = {"FIRST_WORKOUT", "CONSISTENCY_7", "CONSISTENCY_30",
                             "CALORIE_BURNER_1000", "CALORIE_BURNER_5000"}
    /\ ConsecutiveDays("u1") = 30
    /\ TotalCalories(activities, "u1") = 5000

\* C6: check_consistency_badge awards CONSISTENCY_7 exactly when the streak
\* is at least 7 and the badge is not held, and check_30_day_consistency
\* awards CONSISTENCY_30 exactly when the streak is at least 30 and that
\* badge is not held; both return the streak whether or not they award.
C6_ConsistencyAwardedAtThreshold ==
    \A u \in Users :
        LET r7 == check_consistency_badge(badges, u)
            r30 == check_30_day_consistency(badges, u)
            award7 == /\ ConsecutiveDays(u) >= 7
                      /\ ~BadgeExists(badges, u, "CONSISTENCY_7")
            award30 == /\ ConsecutiveDays(u) >= 30
                       /\ ~BadgeExists(badges, u, "CONSISTENCY_30")
        IN  /\ ~r7.err /\ ~r30.err
            /\ r7.ret = <<award7, ReportedStreak(u)>>
            /\ r30.ret = <<award30, ReportedStreak(u)>>
            /\ r7.badges = IF award7
                           THEN WithBadges(badges, u, {"CONSISTENCY_7"})
                           ELSE badges
            /\ r30.badges = IF award30
                            THEN WithBadges(badges, u, {"CONSISTENCY_30"})
                            ELSE badges

\* the 30-day check alone has awarded its badge on a 30-day streak
C6_Witness ==
    /\ Held(badges, "u1") = {"CONSISTENCY_30"}
    /\ ConsecutiveDays("u1") = 30

\* C7, as the code computes it: the current streak is the number of
\* consecutive days, counted back from today inclusive, on which the user
\* has at least one activity, up to 366; it is 0 when there is no activity
\* today.
C7_StreakIsRunOfDaysUpTo366 ==
    \A u \in Users :
        /\ calculate_current_streak(u) = Min(ConsecutiveDays(u), 366)
        /\ today \notin ActiveDays(u) => calculate_current_streak(u) = 0

\* activity today, yesterday and three days ago, none two days ago: streak 2
C7_Witness ==
    /\ {today, today - 1, today - 3} \subseteq ActiveDays("u1")
    /\ (today - 2) \notin ActiveDays("u1")
    /\ calculate_current_streak("u1") = 2

\* C7 as stated: for every set of activity dates the current streak equals
\* the number of consecutive days with activity counted back from today.
C7_StreakIsRunOfDays ==
    \A u \in Users : calculate_current_streak(u) = ConsecutiveDays(u)

\* C8: check_calorie_burner_badges awards CALORIE_BURNER_1000 exactly when
\* the lifetime total is at least 1000 and the badge is not held, and
\* CALORIE_BURNER_5000 exactly when the total is at least 5000 and that badge
\* is not held; the tiers are independent and both are awarded in one call
\* when both conditions hold.
C8_CalorieTiersAwardedIndependently ==
    \A u \in Users :
        LET r == check_calorie_burner_badges(badges, u)
            total == TotalCalories(activities, u)
            tier1 == total >= 1000 /\ ~BadgeExists(badges, u, "CALORIE_BURNER_1000")
            tier5 == total >= 5000 /\ ~BadgeExists(badges, u, "CALORIE_BURNER_5000")
            new == (IF tier1 THEN {"CALORIE_BURNER_1000"} ELSE {})
                   \cup (IF tier5 THEN {"CALORIE_BURNER_5000"} ELSE {})
        IN  /\ ~r.err
            /\ r.badges = WithBadges(badges, u, new)
            /\ Range(r.ret) = new
            /\ Len(r.ret) = Cardinality(new)

\* the calorie check alone has awarded both tiers
C8_Witness ==
    /\ Held(badges, "u1") = {"CALORIE_BURNER_1000", "CALORIE_BURNER_5000"}
    /\ TotalCalories(activities, "u1") >= 5000

\* C9: check_hydration_badge awards HYDRATION_MASTER exactly when the badge
\* is not held and on each of the 7 days ending today the day's water total
\* is at least the user's target; water on other days plays no part.
C9_HydrationAwardedOnSevenDaysOnTarget ==
    \A u \in Users :
        LET r == check_hydration_badge(badges, u)
            award == /\ ~BadgeExists(badges, u, "HYDRATION_MASTER")
                     /\ \A d \in (today - 6)..today :
                           get_daily_total(water, u, d) >= WaterTarget(u)
        IN  /\ ~r.err
            /\ r.ret = award
            /\ r.badges = IF award
                          THEN WithBadges(badges, u, {"HYDRATION_MASTER"})
                          ELSE badges

\* the badge is held after seven days on target, one of them exactly on it
C9_Witness ==
    /\ BadgeExists(badges, "u1", "HYDRATION_MASTER")
    /\ \E d \in (today - 6)..today :
          get_daily_total(water, "u1", d) = WaterTarget("u1")

\* C10: check_early_bird_badge awards EARLY_BIRD exactly when the badge is
\* not held and the user has an activity, on any day, whose hour is below 7;
\* an activity at hour 7 or later never earns it.
C10_EarlyBirdAwardedBeforeSeven ==
    \A u \in Users :
        LET r == check_early_bird_badge(badges, u)
            award == /\ ~BadgeExists(badges, u, "EARLY_BIRD")
                     /\ \E a \in ActivitiesOf(activities, u) : a.hour < 7
        IN  /\ ~r.err
            /\ r.ret = award
            /\ r.badges = IF award THEN WithBadges(badges, u, {"EARLY_BIRD"})
                          ELSE badges

\* the badge is held for a workout at hour 6 on an earlier day, next to a
\* workout at hour 7
C10_Witness ==
    /\ Held(badges, "u1") = {"EARLY_BIRD"}
    /\ \E a \in ActivitiesOf(activities, "u1") : a.hour < 7 /\ a.day < today
    /\ \E a \in ActivitiesOf(activities, "u1") : a.hour = 7

\* n / d rounded to the nearest integer, a half upwards
RoundNearest(n, d) == (2 * n + d) \div (2 * d)

\* C11 as stated: every entry of get_badge_progress has percentage =
\* min(100, round(current / required * 100)), rounded to the nearest integer
\* (a 3-day streak against the 7-day badge reports 43), and never above 100.
C11_PercentageIsRounded ==
    \A u \in Users :
        LET progress == get_badge_progress(badges, u)
        IN  \A k \in DOMAIN progress :
               /\ progress[k].percentage =
                     Min(100, RoundNearest(progress[k].current * 100,
                                           progress[k].required))
               /\ progress[k].percentage <= 100

\* a dashboard request of user u that finished today
Rendered(p, u) ==
    /\ proc[p].pc = "done"
    /\ proc[p].entry = "dashboard"
    /\ proc[p].user = u
    /\ proc[p].day = today

ProgressKey(k) ==
    CASE k = "CONSISTENCY_7" -> "consistency_7"
      [] k = "CONSISTENCY_30" -> "consistency_30"
      [] k = "CALORIE_BURNER_1000" -> "calorie_burner_1000"
      [] k = "CALORIE_BURNER_5000" -> "calorie_burner_5000"

ProgressKinds ==
    {"CONSISTENCY_7", "CONSISTENCY_30",
     "CALORIE_BURNER_1000", "CALORIE_BURNER_5000"}

\* C12: get_badge_progress has an entry for exactly those of the four streak
\* and calorie badges the user does not hold; the entry of a consistency
\* badge has current = the current streak and required 7 or 30, the entry of
\* a calorie badge has current = the lifetime calorie sum and required 1000
\* or 5000.
C12_ProgressListsUnearnedBadges ==
    \A u \in Users :
        LET progress == get_badge_progress(badges, u)
        IN  /\ DOMAIN progress =
                  {ProgressKey(k) : k \in ProgressKinds \ Held(badges, u)}
            /\ \A k \in ProgressKinds \ Held(badges, u) :
                  LET e == progress[ProgressKey(k)]
                  IN  /\ e.current = IF k \in {"CONSISTENCY_7", "CONSISTENCY_30"}
                                     THEN ReportedStreak(u)
                                     ELSE TotalCalories(activities, u)
                      /\ e.required = CASE k = "CONSISTENCY_7" -> 7
                                        [] k = "CONSISTENCY_30" -> 30
                                        [] k = "CALORIE_BURNER_1000" -> 1000
                                        [] k = "CALORIE_BURNER_5000" -> 5000

\* with the 7-day and the 1000 kcal badge earned, the report lists the other
\* two
C12_Witness ==
    /\ Held(badges, "u1") \cap ProgressKinds
          = {"CONSISTENCY_7", "CALORIE_BURNER_1000"}
    /\ DOMAIN get_badge_progress(badges, "u1")
          = {"consistency_30", "calorie_burner_5000"}
    /\ get_badge_progress(badges, "u1")["consistency_30"].current = 7

\* a finished calculator call of function fn
Called(p, fn) ==
    /\ proc[p].pc = "done"
    /\ proc[p].entry = "calculator"
    /\ proc[p].fn = fn

\* a numeric (or date) argument that is missing, malformed or non-positive
Invalid(x) == x.tag \in {"none", "str"} \/ (x.tag = "num" /\ x.val <= 0)

\* the positions of the numeric arguments of each calculator function
NumericArgs(fn) ==
    CASE fn = "calculate_bmi" -> {1, 2}
      [] fn = "calculate_bmr" -> {1, 2, 3}
      [] fn = "estimate_calories_burned" -> {2, 3}
      [] fn = "calculate_age" -> {2}
      [] OTHER -> {1}

\* C15 as stated: every calculator function (BMI, BMI category, BMR, TDEE,
\* calories burned, age, ideal weight range, macro split, water target)
\* returns None, and does not raise, whenever a numeric argument is
\* non-positive, missing or malformed.
C15_InvalidInputGivesNone ==
    \A p \in Procs :
        (/\ proc[p].pc = "done"
         /\ proc[p].entry = "calculator"
         /\ \E i \in NumericArgs(proc[p].fn) : Invalid(proc[p].args[i]))
        => proc[p].result.tag = "none"

\* C16 as stated: for every activity kind, positive duration and positive
\* weight, estimate_calories_burned returns MET * weight * duration / 60
\* rounded to the nearest integer, an exact half upwards, with MET 5.0 for
\* an unknown kind.
C16_CaloriesRoundHalfUp ==
    \A p \in Procs :
        Called(p, "estimate_calories_burned") =>
            LET kind == proc[p].args[1]
                d == proc[p].args[2]
                w == proc[p].args[3]
                met == IF kind \in DOMAIN MET_VALUES THEN MET_VALUES[kind]
                       ELSE 50
            IN  (~Invalid(d) /\ ~Invalid(w)) =>
                    /\ proc[p].result.tag = "value"
                    /\ proc[p].result.val = RoundNearest(met * w.val * d.val, 600)

\* the call calculate_bmr(70, 175, 30, 'M')
BmrExample(p) ==
    /\ Called(p, "calculate_bmr")
    /\ proc[p].args = <<Num(70), Num(175), Num(30), "M">>

C18_StreakScanEndsWithin366Days ==
    \A u \in Users :
        LET days == ActiveDays(u)
        IN  /\ \E i \in 0..365 : StreakStops(days, i)
            /\ StreakLast(days) + 1 <= 366
            /\ calculate_current_streak(u) <= 366

\* 800 days of activity in a row up to today: the scan stops at 366
C18_Witness ==
    /\ \A d \in (today - 799)..today : d \in ActiveDays("u1")
    /\ calculate_current_streak("u1") = 366

\* profiles for which no target can be computed: no row, no weight, or a
\* weight that is zero or negative
NoTargetProfiles ==
    {NoProfile} \cup {Profile(w, lvl) : w \in {None, 0, 0 - 70},
                                         lvl \in ACTIVITY_LEVEL_CHOICES}

\* C19: when the user has no profile, or a profile with no weight or a weight
\* that is not positive, the hydration target is the default 2500 ml:
\* check_hydration_badge does not fail and awards on the 7 days ending today
\* measured against 2500, and check_all_badges completes with its summary.
C19_NoTargetFallsBackTo2500 ==
    /\ \A profile \in NoTargetProfiles : WaterTargetFor(profile) = 2500
    /\ \A u \in Users :
          profiles[u] \in NoTargetProfiles =>
              LET r == check_hydration_badge(badges, u)
                  all == check_all_badges(badges, u)
                  award == /\ ~BadgeExists(badges, u, "HYDRATION_MASTER")
                           /\ \A d \in (today - 6)..today :
                                 get_daily_total(water, u, d) >= 2500
              IN  /\ WaterTarget(u) = 2500
                  /\ ~r.err
                  /\ r.ret = award
                  /\ ~all.err
                  /\ all.ret.total_badges = BadgeCount(all.badges, u)
                  /\ BadgeExists(all.badges, u, "HYDRATION_MASTER")
                        = (award \/ BadgeExists(badges, u, "HYDRATION_MASTER"))

\* a user whose profile has no weight holds the hydration badge after seven
\* days on 2500 ml, today's total being below the 70 kg target
C19_Witness ==
    /\ \E u \in Users :
          /\ profiles[u].exists
          /\ profiles[u].weight_kg = None
          /\ BadgeExists(badges, u, "HYDRATION_MASTER")
          /\ \A d \in (today - 6)..today : get_daily_total(water, u, d) >= 2500
          /\ get_daily_total(water, u, today) < 2625

\* C20: Badge rows are created only by the badge engine's checks.  Logging,
\* editing or deleting an activity, logging water or a meal, updating
\* biometrics or the profile and viewing the dashboard with its daily tip
\* leave the Badge table as it was; a step that changes the table is a
\* BadgeChecker call; and no step removes or alters a row that is there.
C20_OnlyChecksCreateBadges ==
    [][/\ CoreStep => badges' = badges
       /\ badges' # badges => EngineStep
       /\ badges \sqsubseteq badges']_vars

\* a badge is held while a meal and a weight have been logged since and the
\* dashboard has been rendered
C20_Witness ==
    /\ badges # EmptyBag
    /\ meals # EmptyBag
    /\ biometrics # EmptyBag
    /\ proc["p1"].pc = "done"
    /\ proc["p1"].entry = "dashboard"

\* the rows of table X that are the user's and dated yesterday
OwnYesterday(X, u) ==
    LET rows == {r \in BagToSet(X) : r.user = u /\ r.day = today - 1}
    IN  [r \in rows |-> CopiesIn(r, X)]

\* rows that are not the user's of yesterday: today's, older ones, another
\* user's of yesterday
ForeignWater(u) ==
    {EmptyBag,
     WaterRows(u, today, <<3000>>),
     WaterRows(u, today - 2, <<3000>>) (+) WaterRows(u, today, <<100>>),
     WaterRows(CHOOSE v \in Users : v # u, today - 1, <<3000>>)}

ForeignActivities(u) ==
    {EmptyBag,
     ActivityRows(u, today, <<900>>),
     ActivityRows(u, today - 2, <<900>>) (+) ActivityRows(u, today, <<900>>),
     ActivityRows(CHOOSE v \in Users : v # u, today - 1, <<900>>)}

\* C21: the daily tip depends only on the user's water and activity records
\* dated yesterday: every store that has the same such records as the present
\* one, whatever rows of today, of other days or of other users it holds
\* besides, gives the tip the present store gives.
C21_TipDependsOnOwnYesterdayOnly ==
    \A u \in Users :
        \A fw \in ForeignWater(u), fa \in ForeignActivities(u) :
            daily_tip(OwnYesterday(water, u) (+) fw,
                      OwnYesterday(activities, u) (+) fa, today, u)
                = generate_daily_tip(u)

\* the store holds rows of today and of another user besides yesterday's
\* records of the user, whose dashboard shows the high-burn tip
C21_Witness ==
    /\ proc["p1"].pc = "done"
    /\ proc["p1"].entry = "dashboard"
    /\ proc["p1"].user = "u1"
    /\ proc["p1"].day = today
    /\ proc["p1"].daily_tip = HighBurn
    /\ \E r \in BagToSet(water) : r.user = "u2" /\ r.day = today - 1
    /\ \E r \in BagToSet(water) : r.user = "u1" /\ r.day = today
    /\ \E r \in BagToSet(activities) : r.user = "u1" /\ r.day = today
    /\ OwnYesterday(water, "u1") # water

\* process p has finished a check_all_badges call for u, normally or with
\* the error of a rejected insert
FinishedCheckAll(p, u) ==
    /\ proc[p].pc \in {"done", "raised"}
    /\ proc[p].entry = "check_all_badges"
    /\ proc[p].user = u

\* C22: when two requests have run check_all_badges for one user at the same
\* time over unchanged records and both calls have ended, normally or with
\* IntegrityError, every kind whose criterion is satisfied is in the Badge
\* table exactly once, and at most one of the calls ended with the error: the
\* call that won the insert goes on through the remaining checks.
C22_ConcurrentCheckAllAwardsEverySatisfiedKind ==
    \A u \in Users, p \in Procs, q \in Procs :
        (p # q /\ FinishedCheckAll(p, u) /\ FinishedCheckAll(q, u)) =>
            /\ \A k \in EngineKinds :
                  Satisfied(k, u) => Copies(badges, u, k) = 1
            /\ proc[p].pc = "done" \/ proc[q].pc = "done"

\* one call was rejected after it had created a badge itself; the other
\* finished, and several kinds are satisfied
C22_Witness ==
    \E p \in Procs, q \in Procs :
        /\ p # q
        /\ FinishedCheckAll(p, "u1") /\ FinishedCheckAll(q, "u1")
        /\ proc[p].pc = "raised"
        /\ proc[p].awarded # <<>>
        /\ proc[q].pc = "done"
        /\ Cardinality({k \in EngineKinds : Satisfied(k, "u1")}) >= 3

\* the activity-derived kinds
ActivityDerived ==
    {"CONSISTENCY_7", "CONSISTENCY_30", "CALORIE_BURNER_1000",
     "CALORIE_BURNER_5000", "EARLY_BIRD"}

\* who holds the 30-day badge holds the 7-day badge, and who holds an
\* activity-derived badge holds the first-workout badge
BadgesNested(u) ==
    /\ BadgeExists(badges, u, "CONSISTENCY_30")
          => BadgeExists(badges, u, "CONSISTENCY_7")
    /\ Held(badges, u) \cap ActivityDerived # {}
          => BadgeExists(badges, u, "FIRST_WORKOUT")

NoCallInProgress == \A p \in Procs : ~Running(proc[p])

\* a write was made between two steps of a check_all_badges call for u
Interleaved(u) ==
    \E p \in Procs : /\ proc[p].pc # "idle"
                     /\ proc[p].user = u
                     /\ proc[p].interleaved

\* C23 as stated: with check_all_badges the only creator of badges, in every
\* state with no call in progress, also after a call that interleaved with
\* the user's activity logging, the 30-day badge comes with the 7-day badge
\* and every activity-derived badge with the first-workout badge.
C23_BadgesNestedAfterAnyCall ==
    NoCallInProgress => \A u \in Users : BadgesNested(u)

\* C23, amended: the same, for a user none of whose check_all_badges calls
\* had an activity logged or deleted while it ran.
C23_BadgesNestedAfterUndisturbedCalls ==
    NoCallInProgress =>
        \A u \in Users : ~Interleaved(u) => BadgesNested(u)

\* after logging, a stepwise call that no write disturbed has finished and
\* the user holds the 30-day, the 7-day and the first-workout badge
C23_Witness ==
    /\ NoCallInProgress
    /\ nops > 0
    /\ proc["p1"].pc = "done"
    /\ ~Interleaved("u1")
    /\ {"CONSISTENCY_30", "CONSISTENCY_7", "FIRST_WORKOUT"}
          \subseteq Held(badges, "u1")

\* C24: in every state reached through the checks, run alone or in steps
\* beside the user's writes, also in the middle of a call, a user who holds
\* CALORIE_BURNER_5000 holds CALORIE_BURNER_1000.
C24_Tier5000ImpliesTier1000 ==
    \A u \in Users :
        BadgeExists(badges, u, "CALORIE_BURNER_5000")
            => BadgeExists(badges, u, "CALORIE_BURNER_1000")

\* one stepwise call created the 1000 tier and then the 5000 tier
C24_Witness ==
    \E p \in Procs :
        /\ proc[p].pc = "done"
        /\ proc[p].entry = "check_all_badges"
        /\ \E i \in DOMAIN proc[p].awarded :
              /\ i + 1 \in DOMAIN proc[p].awarded
              /\ proc[p].awarded[i] = "CALORIE_BURNER_1000"
              /\ proc[p].awarded[i + 1] = "CALORIE_BURNER_5000"
        /\ BadgeExists(badges, proc[p].user, "CALORIE_BURNER_5000")

\* C25: check_all_badges called twice in a row, with no record and no day
\* changed in between: the second call creates nothing and lists nothing as
\* newly awarded, and its current_streak and total_badges are those of the
\* first call.
C25_SecondCheckAllAwardsNothing ==
    \A u \in Users :
        LET first == check_all_badges(badges, u)
            second == check_all_badges(first.badges, u)
        IN  /\ ~first.err
            /\ ~second.err
            /\ second.badges = first.badges
            /\ second.ret.badges_awarded = <<>>
            /\ second.ret.current_streak = first.ret.current_streak
            /\ second.ret.total_badges = first.ret.total_badges

\* after a write, a first call would award three kinds or more, the 7-day
\* badge among them, to a user who already holds a badge
C25_Witness ==
    /\ nops >= 1
    /\ Held(badges, "u1") # {}
    /\ LET first == check_all_badges(badges, "u1")
       IN  /\ Len(first.ret.badges_awarded) >= 3
           /\ "CONSISTENCY_7" \in Range(first.ret.badges_awarded)
           /\ first.ret.current_streak >= 7

\* the Badge rows owned by u
BadgesOwned(u) ==
    LET rows == {r \in BagToSet(badges) : r.user = u}
    IN  [r \in rows |-> CopiesIn(r, badges)]

\* C26: a request of a user v (logging or deleting an activity, logging
\* water, running the badge check) changes, for every other user u, neither
\* the Badge rows u owns, nor u's streak, nor u's progress report, nor what
\* the calorie, early-bird and hydration checks of u would return; so the
\* check of v creates rows owned by v only.
C26_OtherUsersOperationsChangeNothing ==
    [][\A u \in Users, v \in Users :
          (u # v /\ OperationOf(v)) =>
              /\ BadgesOwned(u)' = BadgesOwned(u)
              /\ calculate_current_streak(u)' = calculate_current_streak(u)
              /\ get_badge_progress(badges, u)' = get_badge_progress(badges, u)
              /\ check_calorie_burner_badges(badges, u).ret'
                    = check_calorie_burner_badges(badges, u).ret
              /\ check_early_bird_badge(badges, u).ret'
                    = check_early_bird_badge(badges, u).ret
              /\ check_hydration_badge(badges, u).ret'
                    = check_hydration_badge(badges, u).ret]_vars

\* both users have activity today, u2 through a logged one, and both hold
\* badges; u1's streak is at least 2
C26_Witness ==
    /\ \E r \in ActivitiesOf(activities, "u2") : r.day = today
    /\ Held(badges, "u2") # {}
    /\ Held(badges, "u1") # {}
    /\ calculate_current_streak("u1") >= 2
    /\ calculate_current_streak("u2") >= 2
    /\ "calorie_burner_1000" \in DOMAIN get_badge_progress(badges, "u1")

\* C27: a call of get_badge_progress or get_user_badges leaves the Badge,
\* activity and water tables as they are; get_user_badges returns the rows
\* the user holds; and for a streak or calorie badge whose criterion is
\* satisfied but which is not awarded yet, the progress report has the entry
\* at 100 percent and the badge is still not held after the call.
C27_ProgressAndBadgeListAreReadOnly ==
    [][\A u \in Users :
          /\ (ViewProgress("p1", u) \/ ViewBadges("p1", u)) =>
                /\ badges' = badges
                /\ activities' = activities
                /\ water' = water
          /\ ViewBadges("p1", u) =>
                {r.badge_type : r \in proc'["p1"].earned} = Held(badges, u)
          /\ ViewProgress("p1", u) =>
                \A k \in ProgressKinds :
                    (Satisfied(k, u) /\ ~BadgeExists(badges, u, k)) =>
                        /\ ProgressKey(k) \in DOMAIN proc'["p1"].progress
                        /\ proc'["p1"].progress[ProgressKey(k)].percentage = 100
                        /\ ~BadgeExists(badges', u, k)]_vars

\* the report of a user shows a badge at 100 percent that the user does not
\* hold, while the user holds another badge
C27_Witness ==
    /\ proc["p1"].pc = "done"
    /\ proc["p1"].entry = "get_badge_progress"
    /\ proc["p1"].progress = get_badge_progress(badges, proc["p1"].user)
    /\ \E k \in ProgressKinds :
          /\ Satisfied(k, proc["p1"].user)
          /\ ~BadgeExists(badges, proc["p1"].user, k)
          /\ proc["p1"].progress[ProgressKey(k)].percentage = 100
    /\ Held(badges, proc["p1"].user) # {}

\* C28: no state reached by user operations, changes of a goal and badge
\* checks has a WEIGHT_GOAL badge, also when a weight goal has reached its
\* target, and check_all_badges never lists WEIGHT_GOAL as newly awarded.
C28_WeightGoalNeverAwarded ==
    \A u \in Users :
        /\ ~BadgeExists(badges, u, "WEIGHT_GOAL")
        /\ LET r == check_all_badges(badges, u)
           IN  /\ ~r.err
               /\ "WEIGHT_GOAL" \notin Range(r.ret.badges_awarded)
               /\ ~BadgeExists(r.badges, u, "WEIGHT_GOAL")

\* the weight goal of a user was brought to its target, the weight was
\* logged, and the user holds badges from a check
C28_Witness ==
    /\ \E g \in BagToSet(goals) :
          /\ g.user = "u1"
          /\ g.goal_type = "WEIGHT"
          /\ g.target_value > 0
          /\ is_achieved(g.target_value, g.current_value)
    /\ biometrics # EmptyBag
    /\ Held(badges, "u1") # {}

\* progress_percentage lies between 0 and 100 percent for every goal
ProgressInRange ==
    \A g \in BagToSet(goals) :
        LET pct == progress_percentage(g.target_value, g.current_value)
        IN  0 <= pct /\ pct <= 10000

\* C29: for every goal (target and current value are never negative),
\* is_achieved holds exactly when progress_percentage equals 100, and
\* progress_percentage lies between 0 and 100 inclusive.
C29_AchievedIffFullProgress ==
    /\ ProgressInRange
    /\ \A g \in BagToSet(goals) :
          is_achieved(g.target_value, g.current_value)
              <=> progress_percentage(g.target_value, g.current_value) = 10000

\* a row was saved through ActivityLog.save by process p
Saved(p) == proc[p].pc = "done" /\ proc[p].entry = "ActivityLog.save"

\* the weight the claim names: the profile weight, 70 kg when the profile or
\* its weight is missing
ClaimedWeight(profile) ==
    IF profile.exists /\ profile.weight_kg # None THEN profile.weight_kg
    ELSE 70

====
